---- MODULE Spec2Model ----
(***************************************************************************)
(* A model of the jSquash JPEG XL binding layer:                           *)
(*   src/packages/jxl/codec/enc/jxl_enc.cpp   (encode and its helpers)     *)
(*   src/packages/jxl/codec/dec/jxl_dec.cpp   (decode, decodeHighBitDepth, *)
(*                                             decodeLinearFloat)          *)
(* The Codec Engine (libjxl) and the colour transform service (skcms) are  *)
(* external: every call into them is logged and its outcome is chosen      *)
(* nondeterministically among the statuses the API can return.             *)
(*                                                                         *)
(* Five specifications share the module:                                   *)
(*   SpecFn   the helper functions applied to inputs drawn from bounded    *)
(*            sets (ComputeExpectedSize, IsSupportedCombination,           *)
(*            SetupColorEncoding, the quality-to-distance mapping, the     *)
(*            effective bit depth);                                        *)
(*   Spec     one call of encode, statement by statement;                  *)
(*   SpecLive Spec with a fair scheduler, for the output loop's ending;    *)
(*   SpecDec  one call of decode / decodeHighBitDepth / decodeLinearFloat; *)
(*   SpecAll  one call of any of the four exported functions.              *)
(*                                                                         *)
(* Machine words are scaled: a uint32_t/int of the source is WordBits wide *)
(* here, and size_t is WordBits (wasm32) or 2*WordBits (a 64-bit host)     *)
(* wide, so that wrap-around is reachable inside TLC's integers.           *)
(***************************************************************************)
EXTENDS Integers, Sequences, FiniteSets, TLC

VARIABLES
    \* ---- helper-function harness (SpecFn)
    fn,           \* which helper is applied
    args,         \* its arguments
    ret,          \* what it returned
    fnpc,         \* "call" before the helper ran, "ret" after
    \* ---- one encode call (Spec)
    pc,           \* position in encode
    pthreads,     \* whether the build defines __EMSCRIPTEN_PTHREADS__
    width,        \* int width
    height,       \* int height
    image_size,   \* image.size()
    options,      \* JXLOptions
    encoder,      \* the unique_ptr<JxlEncoder>: "unset" | "null" | "live" | "destroyed"
    runner,       \* the unique_ptr<void> runner, same values
    calls,        \* the engine calls made so far, in order
    compressed,   \* std::vector<uint8_t> compressed, as runs of bytes
    next_out,     \* next_out - compressed.data()
    avail_out,    \* avail_out
    written,      \* bytes the engine has written so far
    engine_grows, \* how many need-more-output answers the engine still may give
    result,       \* what encode returned
    \* ---- one decode call (SpecDec)
    dfunc,        \* which function runs: "decode" | "decodeHighBitDepth" | "decodeLinearFloat"
    dpc,          \* position in it
    dec,          \* the unique_ptr<JxlDecoder>: "unset" | "null" | "live" | "destroyed"
    dcalls,       \* the engine and skcms calls made so far, in order
    info,         \* JxlBasicInfo info, <<>> before JxlDecoderGetBasicInfo filled it
    icc_size,     \* size_t icc_size
    buffer_size,  \* size_t buffer_size
    float_pixels, \* the float[] float_pixels
    pixels_read,  \* whether the function has read float_pixels
    dresult       \* what the function returned

fnVars  == <<fn, args, ret, fnpc>>
encVars == <<pc, pthreads, width, height, image_size, options, encoder, runner,
             calls, compressed, next_out, avail_out, written, engine_grows, result>>
decVars == <<dfunc, dpc, dec, dcalls, info, icc_size, buffer_size, float_pixels,
             pixels_read, dresult>>
vars    == <<fnVars, encVars, decVars>>

----------------------------------------------------------------------------
(* Bounds of the model *)

\* width of the model's uint32_t and int; size_t is WordBits or 2*WordBits wide
WordBits == 5
\* largest number of need-more-output answers the engine gives in one encode
MaxGrow == 2
\* how far beyond [0,100] the quality values of the harness reach
QOver == 10

----------------------------------------------------------------------------
(* Arithmetic helpers *)

RECURSIVE Pow(_, _)
Pow(b, n) == IF n = 0 THEN 1 ELSE b * Pow(b, n - 1)

Pow2(n) == Pow(2, n)

Min(a, b) == IF a <= b THEN a ELSE b
Max(a, b) == IF a >= b THEN a ELSE b

\* std::clamp(v, lo, hi)
Clamp(v, lo, hi) == IF v < lo THEN lo ELSE IF hi < v THEN hi ELSE v

\* std::numeric_limits<T>::max() of an unsigned type of the given width
UMax(bits) == Pow2(bits) - 1
\* the largest int
IntMax == Pow2(WordBits - 1) - 1

\* static_cast to an unsigned type of the given width
CastU(v, bits) == v % Pow2(bits)

----------------------------------------------------------------------------
(* jxl_enc.cpp: helper functions *)

\* A faulty variant of ComputeExpectedSize: the overflow tests multiply first and
\* compare afterwards, on wrapped values.
ComputeExpectedSize_wrapcheck(width_, height_, num_channels, bytes_per_sample, expected_size, size_bits) ==
    IF width_ = 0 \/ height_ = 0 \/ num_channels <= 0 \/ bytes_per_sample = 0
    THEN [ok |-> FALSE, expected_size |-> expected_size]
    ELSE LET width_s    == CastU(width_, size_bits)
             height_s   == CastU(height_, size_bits)
             channels_s == CastU(num_channels, size_bits)
             pixels     == CastU(width_s * height_s, size_bits)
             samples    == CastU(pixels * channels_s, size_bits)
             total      == CastU(samples * bytes_per_sample, size_bits)
         IN  IF pixels < width_s THEN [ok |-> FALSE, expected_size |-> expected_size]
             ELSE IF samples < pixels THEN [ok |-> FALSE, expected_size |-> expected_size]
             ELSE IF total < samples THEN [ok |-> FALSE, expected_size |-> expected_size]
             ELSE [ok |-> TRUE, expected_size |-> total]

\* bool ComputeExpectedSize(width, height, num_channels, bytes_per_sample,
\*                          size_t* expected_size); size_bits is the width of
\* size_t, expected_size the value *expected_size held before the call.
ComputeExpectedSize(width_, height_, num_channels, bytes_per_sample, expected_size, size_bits) ==
    IF width_ = 0 \/ height_ = 0 \/ num_channels <= 0 \/ bytes_per_sample = 0
    THEN [ok |-> FALSE, expected_size |-> expected_size]
    ELSE LET width_s    == CastU(width_, size_bits)
             height_s   == CastU(height_, size_bits)
             channels_s == CastU(num_channels, size_bits)
             max_size   == UMax(size_bits)
             pixels     == CastU(width_s * height_s, size_bits)
             samples    == CastU(pixels * channels_s, size_bits)
         IN  IF width_s > max_size \div height_s
             THEN [ok |-> FALSE, expected_size |-> expected_size]
             ELSE IF pixels > max_size \div channels_s
             THEN [ok |-> FALSE, expected_size |-> expected_size]
             ELSE IF samples > max_size \div bytes_per_sample
             THEN [ok |-> FALSE, expected_size |-> expected_size]
             ELSE [ok |-> TRUE,
                   expected_size |-> CastU(samples * bytes_per_sample, size_bits)]

\* A faulty variant of IsSupportedCombination: 16-bit depth is accepted for
\* every integer input type.
IsSupportedCombination_loose(input_type, bit_depth) ==
    IF input_type = 0 THEN bit_depth = 8 \/ bit_depth = 16
    ELSE IF input_type = 1 THEN bit_depth = 10 \/ bit_depth = 12 \/ bit_depth = 16
    ELSE IF input_type = 2 THEN bit_depth = 32
    ELSE FALSE

\* bool IsSupportedCombination(int input_type, int bit_depth)
IsSupportedCombination(input_type, bit_depth) ==
    IF input_type = 0 THEN bit_depth = 8
    ELSE IF input_type = 1 THEN bit_depth = 10 \/ bit_depth = 12 \/ bit_depth = 16
    ELSE IF input_type = 2 THEN bit_depth = 32
    ELSE FALSE

\* JxlColorEncoding color_encoding = {}: every field holds its zero value
\* (0 is JXL_COLOR_SPACE_RGB and JXL_RENDERING_INTENT_PERCEPTUAL; no white
\* point, primaries or transfer function has the value 0).
ZeroColorEncoding ==
    [color_space |-> "RGB", white_point |-> "ZERO", primaries |-> "ZERO",
     transfer_function |-> "ZERO", rendering_intent |-> "PERCEPTUAL"]

\* The engine's preset for sRGB, is_gray = JXL_FALSE (the rendering intent is
\* whatever the engine's preset chooses).
JxlColorEncodingSetToSRGB(color_encoding) ==
    [color_space |-> "RGB", white_point |-> "D65", primaries |-> "SRGB",
     transfer_function |-> "SRGB", rendering_intent |-> "PRESET"]

\* The engine's preset for linear sRGB, is_gray = JXL_FALSE.
JxlColorEncodingSetToLinearSRGB(color_encoding) ==
    [color_space |-> "RGB", white_point |-> "D65", primaries |-> "SRGB",
     transfer_function |-> "LINEAR", rendering_intent |-> "PRESET"]

\* A faulty variant of SetupColorEncoding: PQ and HLG are swapped, and Display-P3
\* ignores the input type.
SetupColorEncoding_swapped(color_space, input_type, color_encoding) ==
    IF color_space = 0
    THEN [ok |-> TRUE,
          color_encoding |-> IF input_type = 2
                             THEN JxlColorEncodingSetToLinearSRGB(color_encoding)
                             ELSE JxlColorEncodingSetToSRGB(color_encoding)]
    ELSE LET ce == [color_encoding EXCEPT !.color_space = "RGB",
                                          !.white_point = "D65",
                                          !.rendering_intent = "PERCEPTUAL"]
         IN  IF color_space = 1
             THEN [ok |-> TRUE,
                   color_encoding |-> [ce EXCEPT !.primaries = "P3",
                                                 !.transfer_function = "SRGB"]]
             ELSE IF color_space = 2
             THEN [ok |-> TRUE,
                   color_encoding |-> [ce EXCEPT !.primaries = "2100",
                                                 !.transfer_function = "HLG"]]
             ELSE IF color_space = 3
             THEN [ok |-> TRUE,
                   color_encoding |-> [ce EXCEPT !.primaries = "2100",
                                                 !.transfer_function = "PQ"]]
             ELSE [ok |-> FALSE, color_encoding |-> ce]

\* bool SetupColorEncoding(int color_space, int input_type,
\*                         JxlColorEncoding* color_encoding)
SetupColorEncoding(color_space, input_type, color_encoding) ==
    IF color_space = 0
    THEN [ok |-> TRUE,
          color_encoding |-> IF input_type = 2
                             THEN JxlColorEncodingSetToLinearSRGB(color_encoding)
                             ELSE JxlColorEncodingSetToSRGB(color_encoding)]
    ELSE LET ce == [color_encoding EXCEPT !.color_space = "RGB",
                                          !.white_point = "D65",
                                          !.rendering_intent = "PERCEPTUAL"]
         IN  IF color_space = 1
             THEN [ok |-> TRUE,
                   color_encoding |->
                       [ce EXCEPT !.primaries = "P3",
                                  !.transfer_function =
                                      IF input_type = 2 THEN "LINEAR" ELSE "SRGB"]]
             ELSE IF color_space = 2
             THEN [ok |-> TRUE,
                   color_encoding |-> [ce EXCEPT !.primaries = "2100",
                                                 !.transfer_function = "PQ"]]
             ELSE IF color_space = 3
             THEN [ok |-> TRUE,
                   color_encoding |-> [ce EXCEPT !.primaries = "2100",
                                                 !.transfer_function = "HLG"]]
             ELSE [ok |-> FALSE, color_encoding |-> ce]

----------------------------------------------------------------------------
(* jxl_enc.cpp: the quality-to-distance mapping of encode                  *)
(*                                                                         *)
(* A float is held as an integer count of 1/FScale units.  FScale makes    *)
(* every constant of the mapping (0.1, 0.09, 6.4, 6.25) and every value    *)
(* 2.5^k, k in 0..6, exact, so the mapping is computed without rounding at *)
(* the qualities the model draws: every integer quality from 30 up, and    *)
(* the multiples of 5 below 30 (where the exponent (30 - q)/5 is whole).   *)

FScale == 64 * 25

\* the float n/d
Rat(n, d) == (n * FScale) \div d

\* std::pow(n/d, k) for a whole k >= 0
PowRat(n, d, k) == (Pow(n, k) * FScale) \div Pow(d, k)

\* distance = 0.1f + (100.0f - quality) * 0.09f
DistanceLinear(quality) == Rat(1, 10) + (100 - quality) * Rat(9, 100)

\* A faulty variant of DistanceExp: the exponential term is dropped at the breakpoint
\* so that the branch meets the linear one at 6.4.
DistanceExp_continuous(quality) ==
    Rat(64, 10) + (PowRat(5, 2, (30 - quality) \div 5) * 100) \div 625 - Rat(16, 100)

\* distance = 6.4f + std::pow(2.5f, (30.0f - quality) / 5.0f) / 6.25f
DistanceExp(quality) ==
    Rat(64, 10) + (PowRat(5, 2, (30 - quality) \div 5) * 100) \div 625

\* A faulty variant of Distance: the quality is not clamped and the linear branch is
\* used below 30 as well.
Distance_linear_only(quality_) ==
    IF quality_ >= 100 THEN 0 ELSE IF quality_ >= 0 THEN DistanceLinear(quality_) ELSE Rat(64, 10)

\* the else branch of `if (options.lossless)`: the distance handed to
\* JxlEncoderSetFrameDistance for options.quality = quality_
Distance(quality_) ==
    LET quality == Clamp(quality_, 0, 100)
    IN  IF quality >= 100 THEN 0
        ELSE IF quality >= 30 THEN DistanceLinear(quality)
        ELSE DistanceExp(quality)

\* the qualities at which the mapping is computed exactly
ExactQuality(q) == q >= 30 \/ q % 5 = 0

----------------------------------------------------------------------------
(* jxl_dec.cpp: the effective bit depth of decodeHighBitDepth *)

\* A faulty variant of effective_bit_depth: the float test comes after the integer
\* tests.
effective_bit_depth_intfirst(bits_per_sample, exponent_bits) ==
    IF bits_per_sample <= 8 THEN 8
    ELSE IF bits_per_sample <= 10 THEN 10
    ELSE IF bits_per_sample <= 12 THEN 12
    ELSE IF exponent_bits > 0 THEN 32
    ELSE 16

\* int effective_bit_depth, from info.bits_per_sample and
\* info.exponent_bits_per_sample
effective_bit_depth(bits_per_sample, exponent_bits) ==
    IF exponent_bits > 0 THEN 32
    ELSE IF bits_per_sample <= 8 THEN 8
    ELSE IF bits_per_sample <= 10 THEN 10
    ELSE IF bits_per_sample <= 12 THEN 12
    ELSE 16

----------------------------------------------------------------------------
(* The state in which no encode call is in progress: the value every       *)
(* encode variable keeps under SpecFn and SpecDec.                         *)

NoResult == [kind |-> "none", bytes |-> <<>>]

IdleEnc ==
    /\ pc = "idle"
    /\ pthreads = FALSE
    /\ width = 0
    /\ height = 0
    /\ image_size = 0
    /\ options = <<>>
    /\ encoder = "unset"
    /\ runner = "unset"
    /\ calls = <<>>
    /\ compressed = <<>>
    /\ next_out = 0
    /\ avail_out = 0
    /\ written = 0
    /\ engine_grows = 0
    /\ result = NoResult

IdleFn ==
    /\ fn = "none"
    /\ args = <<>>
    /\ ret = <<>>
    /\ fnpc = "idle"

\* float_pixels before std::make_unique<float[]>
NoPixels == [state |-> "unset"]

IdleDec ==
    /\ dfunc = "none"
    /\ dpc = "idle"
    /\ dec = "unset"
    /\ dcalls = <<>>
    /\ info = <<>>
    /\ icc_size = 0
    /\ buffer_size = 0
    /\ float_pixels = NoPixels
    /\ pixels_read = FALSE
    /\ dresult = [kind |-> "none"]

----------------------------------------------------------------------------
(* SpecFn: each helper applied once to arguments drawn from bounded sets *)

\* the widths size_t takes: that of uint32_t (wasm32) and twice it
SizeBits == {WordBits, 2 * WordBits}

SizeArgs ==
    [width : 0..UMax(WordBits), height : 0..UMax(WordBits),
     num_channels : -1..5, bytes_per_sample : {0, 1, 2, 4, UMax(WordBits)},
     expected_size : {0}, size_bits : SizeBits]

ComboArgs == [input_type : -1..3, bit_depth : {0, 8, 10, 12, 16, 32}]

ColorArgs == [color_space : -2..6, input_type : -1..3]

QualityValues == {q \in (0 - QOver)..(100 + QOver) : ExactQuality(q)}

DistanceArgs == [q1 : QualityValues, q2 : QualityValues]

DepthArgs == [bits_per_sample : 0..(8 * WordBits + 1), exponent_bits : 0..8]

FnArgs(f) ==
    CASE f = "ComputeExpectedSize" -> SizeArgs
      [] f = "IsSupportedCombination" -> ComboArgs
      [] f = "SetupColorEncoding" -> ColorArgs
      [] f = "Distance" -> DistanceArgs
      [] f = "effective_bit_depth" -> DepthArgs

FnNames ==
    {"ComputeExpectedSize", "IsSupportedCombination", "SetupColorEncoding",
     "Distance", "effective_bit_depth"}

InitFn ==
    /\ fnpc = "call"
    /\ fn \in FnNames
    /\ args \in FnArgs(fn)
    /\ ret = <<>>
    /\ IdleEnc
    /\ IdleDec

CallComputeExpectedSize ==
    /\ fnpc = "call"
    /\ fn = "ComputeExpectedSize"
    /\ ret' = ComputeExpectedSize(args.width, args.height, args.num_channels,
                                  args.bytes_per_sample, args.expected_size,
                                  args.size_bits)
    /\ fnpc' = "ret"
    /\ UNCHANGED <<fn, args, encVars, decVars>>

CallIsSupportedCombination ==
    /\ fnpc = "call"
    /\ fn = "IsSupportedCombination"
    /\ ret' = [ok |-> IsSupportedCombination(args.input_type, args.bit_depth)]
    /\ fnpc' = "ret"
    /\ UNCHANGED <<fn, args, encVars, decVars>>

CallSetupColorEncoding ==
    /\ fnpc = "call"
    /\ fn = "SetupColorEncoding"
    /\ ret' = SetupColorEncoding(args.color_space, args.input_type, ZeroColorEncoding)
    /\ fnpc' = "ret"
    /\ UNCHANGED <<fn, args, encVars, decVars>>

\* the mapping at q1 and at q2; and, at the clamped q1, the linear branch's
\* formula and the exponential branch's formula (the latter at the
\* breakpoint 30 when q1 lies above it)
CallDistance ==
    /\ fnpc = "call"
    /\ fn = "Distance"
    /\ ret' = [d1 |-> Distance(args.q1), d2 |-> Distance(args.q2),
               linear1 |-> DistanceLinear(Clamp(args.q1, 0, 100)),
               exp1 |-> DistanceExp(Min(Clamp(args.q1, 0, 100), 30))]
    /\ fnpc' = "ret"
    /\ UNCHANGED <<fn, args, encVars, decVars>>

Call_effective_bit_depth ==
    /\ fnpc = "call"
    /\ fn = "effective_bit_depth"
    /\ ret' = [effective_bit_depth |->
                   effective_bit_depth(args.bits_per_sample, args.exponent_bits)]
    /\ fnpc' = "ret"
    /\ UNCHANGED <<fn, args, encVars, decVars>>

NextFn ==
    \/ CallComputeExpectedSize
    \/ CallIsSupportedCombination
    \/ CallSetupColorEncoding
    \/ CallDistance
    \/ Call_effective_bit_depth

SpecFn == InitFn /\ [][NextFn]_vars

----------------------------------------------------------------------------
(* Spec: one call of encode(image, width, height, options)                 *)
(*                                                                         *)
(* Every engine call is appended to `calls` as [fn, arg, status]; status   *)
(* is what the engine answered: "SUCCESS", "ERROR", "NEED_MORE_OUTPUT",    *)
(* "NULL" for a null pointer, "VOID" for a call that returns nothing.      *)

Call(f, a, st) == [fn |-> f, arg |-> a, status |-> st]

Failed(c) == c.status \in {"ERROR", "NULL"}

EncStatus == {"SUCCESS", "ERROR"}

Null == [kind |-> "null", bytes |-> <<>>]

\* the variables encode never assigns
encInputs == <<pthreads, width, height, image_size, options>>

\* A faulty variant of Destructors: the runner is never released.
Destructors_leak ==
    IF encoder = "live" THEN <<Call("JxlEncoderDestroy", <<>>, "VOID")>> ELSE <<>>

\* what the destructors of runner and encoder call when encode returns, in
\* the order they run (runner was declared last)
Destructors ==
    (IF runner = "live" THEN <<Call("JxlThreadParallelRunnerDestroy", <<>>, "VOID")>> ELSE <<>>)
    \o (IF encoder = "live" THEN <<Call("JxlEncoderDestroy", <<>>, "VOID")>> ELSE <<>>)

\* return v, after the engine calls `made`: the unique_ptrs release what
\* they hold
Leave(v, made) ==
    /\ pc' = "done"
    /\ result' = v
    /\ calls' = calls \o made \o Destructors
    /\ runner' = IF runner = "live" THEN "destroyed" ELSE runner
    /\ encoder' = IF encoder = "live" THEN "destroyed" ELSE encoder

\* a return from a statement before the output loop
Return(v, made) ==
    /\ Leave(v, made)
    /\ UNCHANGED <<compressed, next_out, avail_out>>

\* go on at `to`, after the engine calls `made`
Goto(to, made) ==
    /\ pc' = to
    /\ calls' = calls \o made
    /\ UNCHANGED <<encoder, runner, result, compressed, next_out, avail_out>>

\* a statement `if (<calls made> failed) return val::null();`
Step(to, made) ==
    IF \E i \in 1..Len(made) : Failed(made[i]) THEN Return(Null, made) ELSE Goto(to, made)

\* bool SetFrameOption(frame_settings, option, value): the engine call it makes
SetFrameOption(option, value, st) ==
    Call("JxlEncoderFrameSettingsSetOption", <<option, value>>, st)

\* size_t bytes_per_sample, chosen with data_type from options.inputType
bytes_per_sample == IF options.inputType = 1 THEN 2 ELSE IF options.inputType = 2 THEN 4 ELSE 1

data_type ==
    IF options.inputType = 1 THEN "JXL_TYPE_UINT16"
    ELSE IF options.inputType = 2 THEN "JXL_TYPE_FLOAT" ELSE "JXL_TYPE_UINT8"

\* the value ComputeExpectedSize leaves in expected_size, and its verdict;
\* size_t is as wide as uint32_t in the wasm32 build
expected_size ==
    ComputeExpectedSize(CastU(width, WordBits), CastU(height, WordBits),
                        options.numChannels, bytes_per_sample, 0, WordBits)

\* A faulty variant of EncValidate: the buffer length is not compared with the
\* expected size.
EncValidate_nolength ==
    /\ pc = "start"
    /\ IF width <= 0 \/ height <= 0 THEN Return(Null, <<>>)
       ELSE IF options.numChannels # 3 /\ options.numChannels # 4 THEN Return(Null, <<>>)
       ELSE IF ~IsSupportedCombination(options.inputType, options.bitDepth)
       THEN Return(Null, <<>>)
       ELSE IF ~expected_size.ok THEN Return(Null, <<>>)
       ELSE Goto("create", <<>>)
    /\ UNCHANGED <<encInputs, written, engine_grows, fnVars, decVars>>

\* encode, the validation of its arguments
EncValidate ==
    /\ pc = "start"
    /\ IF width <= 0 \/ height <= 0 THEN Return(Null, <<>>)
       ELSE IF options.numChannels # 3 /\ options.numChannels # 4 THEN Return(Null, <<>>)
       ELSE IF ~IsSupportedCombination(options.inputType, options.bitDepth)
       THEN Return(Null, <<>>)
       ELSE IF ~expected_size.ok THEN Return(Null, <<>>)
       ELSE IF expected_size.expected_size # image_size THEN Return(Null, <<>>)
       ELSE Goto("create", <<>>)
    /\ UNCHANGED <<encInputs, written, engine_grows, fnVars, decVars>>

\* encoder(JxlEncoderCreate(nullptr), JxlEncoderDestroy); if (!encoder) ...
EncCreate ==
    /\ pc = "create"
    /\ \E st \in {"SUCCESS", "NULL"} :
          /\ calls' = Append(calls, Call("JxlEncoderCreate", <<>>, st))
          /\ encoder' = IF st = "NULL" THEN "null" ELSE "live"
          /\ pc' = IF st = "NULL" THEN "done"
                   ELSE IF pthreads THEN "runner" ELSE "basic_info"
          /\ result' = IF st = "NULL" THEN Null ELSE result
    /\ UNCHANGED <<runner, compressed, next_out, avail_out>>
    /\ UNCHANGED <<encInputs, written, engine_grows, fnVars, decVars>>

\* #ifdef __EMSCRIPTEN_PTHREADS__: runner(JxlThreadParallelRunnerCreate(...))
EncRunnerCreate ==
    /\ pc = "runner"
    /\ \E st \in {"SUCCESS", "NULL"} :
          /\ runner' = IF st = "NULL" THEN "null" ELSE "live"
          /\ IF st = "NULL"
             THEN /\ pc' = "done"
                  /\ result' = Null
                  /\ calls' = calls \o <<Call("JxlThreadParallelRunnerCreate", <<>>, st),
                                         Call("JxlEncoderDestroy", <<>>, "VOID")>>
                  /\ encoder' = "destroyed"
             ELSE /\ pc' = "set_runner"
                  /\ calls' = Append(calls, Call("JxlThreadParallelRunnerCreate", <<>>, st))
                  /\ UNCHANGED <<encoder, result>>
    /\ UNCHANGED <<compressed, next_out, avail_out>>
    /\ UNCHANGED <<encInputs, written, engine_grows, fnVars, decVars>>

\* JxlEncoderSetParallelRunner(encoder.get(), JxlThreadParallelRunner, runner.get())
EncSetRunner ==
    /\ pc = "set_runner"
    /\ \E st \in EncStatus :
          Step("basic_info", <<Call("JxlEncoderSetParallelRunner", <<>>, st)>>)
    /\ UNCHANGED <<encInputs, written, engine_grows, fnVars, decVars>>

\* JxlBasicInfo basic_info as encode fills it in.  bitDepth is one of 8, 10,
\* 12, 16, 32 here, which the cast to uint32_t leaves as it is.
basic_info ==
    [xsize |-> CastU(width, WordBits),
     ysize |-> CastU(height, WordBits),
     bits_per_sample |-> options.bitDepth,
     exponent_bits_per_sample |-> IF options.inputType = 2 THEN 8 ELSE 0,
     num_color_channels |-> 3,
     num_extra_channels |-> IF options.numChannels = 4 THEN 1 ELSE 0,
     alpha_bits |-> IF options.numChannels = 4 THEN options.bitDepth ELSE 0,
     alpha_exponent_bits |->
         IF options.numChannels = 4 THEN (IF options.inputType = 2 THEN 8 ELSE 0) ELSE 0,
     alpha_premultiplied |-> options.numChannels = 4 /\ options.premultipliedAlpha,
     uses_original_profile |-> TRUE]

EncBasicInfo ==
    /\ pc = "basic_info"
    /\ \E st \in EncStatus :
          Step("level", <<Call("JxlEncoderSetBasicInfo", basic_info, st)>>)
    /\ UNCHANGED <<encInputs, written, engine_grows, fnVars, decVars>>

\* the levels JxlEncoderGetRequiredCodestreamLevel answers: -1 (none fits), 5, 10
RequiredLevels == {-1, 5, 10}

\* required_level = JxlEncoderGetRequiredCodestreamLevel(...), and
\* JxlEncoderSetCodestreamLevel(encoder.get(), 10) when it is 10
EncLevel ==
    /\ pc = "level"
    /\ \E required_level \in RequiredLevels, st \in EncStatus :
          LET query == [fn |-> "JxlEncoderGetRequiredCodestreamLevel", arg |-> <<>>,
                        status |-> IF required_level < 0 THEN "ERROR" ELSE "SUCCESS",
                        level |-> required_level]
          IN  IF required_level < 0 THEN Return(Null, <<query>>)
              ELSE IF required_level = 10
              THEN Step("alpha", <<query, Call("JxlEncoderSetCodestreamLevel", 10, st)>>)
              ELSE st = "SUCCESS" /\ Goto("alpha", <<query>>)
    /\ UNCHANGED <<encInputs, written, engine_grows, fnVars, decVars>>

\* JxlExtraChannelInfo alpha_info as encode fills it in
alpha_info ==
    [type |-> "JXL_CHANNEL_ALPHA",
     bits_per_sample |-> basic_info.alpha_bits,
     exponent_bits_per_sample |-> basic_info.alpha_exponent_bits,
     alpha_premultiplied |-> basic_info.alpha_premultiplied]

\* if (options.numChannels == 4) JxlEncoderSetExtraChannelInfo(encoder.get(), 0, &alpha_info)
EncAlpha ==
    /\ pc = "alpha"
    /\ IF options.numChannels = 4
       THEN \E st \in EncStatus :
               Step("color", <<Call("JxlEncoderSetExtraChannelInfo", alpha_info, st)>>)
       ELSE Goto("color", <<>>)
    /\ UNCHANGED <<encInputs, written, engine_grows, fnVars, decVars>>

\* A faulty variant of EncColor: the verdict of SetupColorEncoding is ignored.
EncColor_unchecked ==
    /\ pc = "color"
    /\ LET color_encoding ==
               SetupColorEncoding(options.colorSpace, options.inputType, ZeroColorEncoding)
       IN  \E st \in EncStatus :
              Step("frame_settings",
                   <<Call("JxlEncoderSetColorEncoding", color_encoding.color_encoding, st)>>)
    /\ UNCHANGED <<encInputs, written, engine_grows, fnVars, decVars>>

\* SetupColorEncoding(...) and JxlEncoderSetColorEncoding(encoder.get(), &color_encoding)
EncColor ==
    /\ pc = "color"
    /\ LET color_encoding ==
               SetupColorEncoding(options.colorSpace, options.inputType, ZeroColorEncoding)
       IN  IF ~color_encoding.ok THEN Return(Null, <<>>)
           ELSE \E st \in EncStatus :
                   Step("frame_settings",
                        <<Call("JxlEncoderSetColorEncoding", color_encoding.color_encoding, st)>>)
    /\ UNCHANGED <<encInputs, written, engine_grows, fnVars, decVars>>

\* frame_settings = JxlEncoderFrameSettingsCreate(encoder.get(), nullptr)
EncFrameSettings ==
    /\ pc = "frame_settings"
    /\ \E st \in {"SUCCESS", "NULL"} :
          Step("effort", <<Call("JxlEncoderFrameSettingsCreate", <<>>, st)>>)
    /\ UNCHANGED <<encInputs, written, engine_grows, fnVars, decVars>>

\* std::round of a positive float held as a count of halves
RoundHalves(h) == (h + 1) \div 2

\* static_cast<int32_t>(r) of a rounded positive float: the value itself when
\* an int holds it; undefined otherwise, where the wasm32 build yields the
\* least int (plain conversion) or the greatest (saturating conversion)
StaticCastInt32(r) == IF r <= IntMax THEN {r} ELSE {-(IntMax + 1), IntMax}

\* SetFrameOption(frame_settings, JXL_ENC_FRAME_SETTING_EFFORT, std::clamp(options.effort, 1, 9))
EncEffort ==
    /\ pc = "effort"
    /\ \E st \in EncStatus :
          Step("decoding_speed", <<SetFrameOption("EFFORT", Clamp(options.effort, 1, 9), st)>>)
    /\ UNCHANGED <<encInputs, written, engine_grows, fnVars, decVars>>

\* decoding_speed = (int) std::min<size_t>(options.decodingSpeedTier, 4), then
\* SetFrameOption(..., JXL_ENC_FRAME_SETTING_DECODING_SPEED, std::clamp(decoding_speed, 0, 4))
EncDecodingSpeed ==
    /\ pc = "decoding_speed"
    /\ LET decoding_speed == Min(options.decodingSpeedTier, 4)
       IN  \E st \in EncStatus :
              Step("epf", <<SetFrameOption("DECODING_SPEED", Clamp(decoding_speed, 0, 4), st)>>)
    /\ UNCHANGED <<encInputs, written, engine_grows, fnVars, decVars>>

\* if (options.epf >= -1 && options.epf <= 3 && !SetFrameOption(..., EPF, options.epf))
EncEpf ==
    /\ pc = "epf"
    /\ IF options.epf >= -1 /\ options.epf <= 3
       THEN \E st \in EncStatus :
               Step("photon_noise", <<SetFrameOption("EPF", options.epf, st)>>)
       ELSE Goto("photon_noise", <<>>)
    /\ UNCHANGED <<encInputs, written, engine_grows, fnVars, decVars>>

\* if (options.photonNoiseIso > 0.0f && !SetFrameOption(..., PHOTON_NOISE,
\* (int32_t) std::round(options.photonNoiseIso))); options.photonNoiseIso is
\* held as a count of halves
EncPhotonNoise ==
    /\ pc = "photon_noise"
    /\ IF options.photonNoiseIso > 0
       THEN \E value \in StaticCastInt32(RoundHalves(options.photonNoiseIso)), st \in EncStatus :
               Step("lossy_palette", <<SetFrameOption("PHOTON_NOISE", value, st)>>)
       ELSE Goto("lossy_palette", <<>>)
    /\ UNCHANGED <<encInputs, written, engine_grows, fnVars, decVars>>

\* the calls of a || chain of SetFrameOption: it stops at the first failure
ShortCircuit(cs) ==
    IF \E i \in 1..Len(cs) : Failed(cs[i])
    THEN SubSeq(cs, 1, CHOOSE i \in 1..Len(cs) :
                           Failed(cs[i]) /\ \A j \in 1..(i - 1) : ~Failed(cs[j]))
    ELSE cs

\* if (options.lossyPalette) { LOSSY_PALETTE 1 || PALETTE_COLORS 0 || MODULAR 1 }
EncLossyPalette ==
    /\ pc = "lossy_palette"
    /\ IF options.lossyPalette
       THEN \E st1 \in EncStatus, st2 \in EncStatus, st3 \in EncStatus :
               Step("lossy_modular",
                    ShortCircuit(<<SetFrameOption("LOSSY_PALETTE", 1, st1),
                                   SetFrameOption("PALETTE_COLORS", 0, st2),
                                   SetFrameOption("MODULAR", 1, st3)>>))
       ELSE Goto("lossy_modular", <<>>)
    /\ UNCHANGED <<encInputs, written, engine_grows, fnVars, decVars>>

\* if (options.lossyModular && !SetFrameOption(..., MODULAR, 1))
EncLossyModular ==
    /\ pc = "lossy_modular"
    /\ IF options.lossyModular
       THEN \E st \in EncStatus : Step("progressive", <<SetFrameOption("MODULAR", 1, st)>>)
       ELSE Goto("progressive", <<>>)
    /\ UNCHANGED <<encInputs, written, engine_grows, fnVars, decVars>>

\* A faulty variant of EncProgressive: progressive DC is enabled whether or
\* not lossyModular is set.
EncProgressive_dcalways ==
    /\ pc = "progressive"
    /\ IF options.progressive
       THEN \E st1 \in EncStatus, st2 \in EncStatus, st3 \in EncStatus :
               Step("fidelity",
                    ShortCircuit(<<SetFrameOption("QPROGRESSIVE_AC", 1, st1),
                                   SetFrameOption("RESPONSIVE", 1, st2),
                                   SetFrameOption("PROGRESSIVE_DC", 1, st3)>>))
       ELSE Goto("fidelity", <<>>)
    /\ UNCHANGED <<encInputs, written, engine_grows, fnVars, decVars>>

\* if (options.progressive) { QPROGRESSIVE_AC 1 || RESPONSIVE 1; then, unless
\* options.lossyModular, PROGRESSIVE_DC 1 }
EncProgressive ==
    /\ pc = "progressive"
    /\ IF options.progressive
       THEN \E st1 \in EncStatus, st2 \in EncStatus, st3 \in EncStatus :
               Step("fidelity",
                    ShortCircuit(<<SetFrameOption("QPROGRESSIVE_AC", 1, st1),
                                   SetFrameOption("RESPONSIVE", 1, st2)>>
                                 \o (IF ~options.lossyModular
                                     THEN <<SetFrameOption("PROGRESSIVE_DC", 1, st3)>>
                                     ELSE <<>>)))
       ELSE Goto("fidelity", <<>>)
    /\ UNCHANGED <<encInputs, written, engine_grows, fnVars, decVars>>

\* A faulty variant of EncFidelity: the distance is set whether or not lossless is.
EncFidelity_both ==
    /\ pc = "fidelity"
    /\ \E st1 \in EncStatus, st2 \in EncStatus :
          Step("add_frame",
               ShortCircuit((IF options.lossless
                             THEN <<Call("JxlEncoderSetFrameLossless", TRUE, st1)>>
                             ELSE <<>>)
                            \o <<Call("JxlEncoderSetFrameDistance",
                                      Distance(options.quality), st2)>>))
    /\ UNCHANGED <<encInputs, written, engine_grows, fnVars, decVars>>

\* if (options.lossless) JxlEncoderSetFrameLossless(frame_settings, JXL_TRUE)
\* else { quality, distance; MODULAR 1 when quality >= 100 and lossyModular;
\*        JxlEncoderSetFrameDistance(frame_settings, distance) }
EncFidelity ==
    /\ pc = "fidelity"
    /\ IF options.lossless
       THEN \E st \in EncStatus :
               Step("add_frame", <<Call("JxlEncoderSetFrameLossless", TRUE, st)>>)
       ELSE LET quality == Clamp(options.quality, 0, 100)
                distance == Distance(options.quality)
            IN  \E st1 \in EncStatus, st2 \in EncStatus :
                   Step("add_frame",
                        ShortCircuit((IF quality >= 100 /\ options.lossyModular
                                      THEN <<SetFrameOption("MODULAR", 1, st1)>>
                                      ELSE <<>>)
                                     \o <<Call("JxlEncoderSetFrameDistance", distance, st2)>>))
    /\ UNCHANGED <<encInputs, written, engine_grows, fnVars, decVars>>

\* std::vector<uint8_t> compressed(8192)
InitialCapacity == 8192

(* The bytes of a buffer are held run by run: a run [len, from] is len     *)
(* consecutive bytes, either the bytes a vector value-initialised          *)
(* (from = ZeroFill) or the bytes from, from+1, ... of the compressed      *)
(* stream the engine produces.  A buffer is kept normalised (no empty run, *)
(* no two runs that continue one another), so two buffers are equal        *)
(* exactly when they hold the same bytes at the same positions.            *)

ZeroFill == 0 - 1

Run(len, from) == [len |-> len, from |-> from]

\* whether run b continues run a
Continues(a, b) ==
    \/ a.from = ZeroFill /\ b.from = ZeroFill
    \/ a.from # ZeroFill /\ b.from # ZeroFill /\ a.from + a.len = b.from

RECURSIVE Normalise(_)
Normalise(v) ==
    IF v = <<>> THEN <<>>
    ELSE IF Head(v).len = 0 THEN Normalise(Tail(v))
    ELSE LET rest == Normalise(Tail(v))
         IN  IF rest # <<>> /\ Continues(Head(v), Head(rest))
             THEN <<Run(Head(v).len + Head(rest).len, Head(v).from)>> \o Tail(rest)
             ELSE <<Head(v)>> \o rest

\* std::vector::size()
RECURSIVE Size(_)
Size(v) == IF v = <<>> THEN 0 ELSE Head(v).len + Size(Tail(v))

\* the first n bytes of v
RECURSIVE Take(_, _)
Take(v, n) ==
    IF n = 0 \/ v = <<>> THEN <<>>
    ELSE IF Head(v).len <= n THEN <<Head(v)>> \o Take(Tail(v), n - Head(v).len)
    ELSE <<Run(n, Head(v).from)>>

\* the bytes of v after its first n
RECURSIVE Drop(_, _)
Drop(v, n) ==
    IF v = <<>> THEN <<>>
    ELSE IF n = 0 THEN v
    ELSE IF Head(v).len <= n THEN Drop(Tail(v), n - Head(v).len)
    ELSE <<Run(Head(v).len - n,
               IF Head(v).from = ZeroFill THEN ZeroFill ELSE Head(v).from + n)>> \o Tail(v)

\* std::vector<uint8_t>(n): n value-initialised bytes
Vector(n) == Normalise(<<Run(n, ZeroFill)>>)

\* std::vector::resize(n): the first n elements are kept, new ones are 0
Resize(v, n) ==
    IF n <= Size(v) THEN Take(v, n) ELSE Normalise(v \o <<Run(n - Size(v), ZeroFill)>>)

\* JxlPixelFormat pixel_format
pixel_format ==
    [num_channels |-> options.numChannels, data_type |-> data_type,
     endianness |-> "JXL_NATIVE_ENDIAN", align |-> 0]

\* JxlEncoderAddImageFrame(frame_settings, &pixel_format, image.data(), image.size()),
\* JxlEncoderCloseInput(encoder.get()), and the output buffer's construction
EncAddFrame ==
    /\ pc = "add_frame"
    /\ \E st \in EncStatus :
          LET add == Call("JxlEncoderAddImageFrame",
                          [pixel_format |-> pixel_format, size |-> image_size], st)
          IN  IF Failed(add) THEN Return(Null, <<add>>)
              ELSE /\ pc' = "output"
                   /\ calls' = calls \o <<add, Call("JxlEncoderCloseInput", <<>>, "VOID")>>
                   /\ compressed' = Vector(InitialCapacity)
                   /\ next_out' = 0
                   /\ avail_out' = InitialCapacity
                   /\ UNCHANGED <<encoder, runner, result>>
    /\ UNCHANGED <<encInputs, written, engine_grows, fnVars, decVars>>

\* the amounts the engine writes in one call when avail bytes are free
WriteAmounts(avail) == {0, 1, avail \div 2, avail}

\* what JxlEncoderProcessOutput does to the buffer: it writes k bytes, the
\* stream's bytes from position `from` on, at offset `offset`
EngineWrite(v, offset, k, from) ==
    Normalise(Take(v, offset) \o <<Run(k, from)>> \o Drop(v, offset + k))

\* A faulty variant of Grow: the free space is taken to be the whole new buffer.
Grow_whole(v, cursor) ==
    LET offset == cursor
        grown == Resize(v, Size(v) * 2)
    IN  [compressed |-> grown, next_out |-> offset, avail_out |-> Size(grown)]

\* A faulty variant of Grow: the buffer grows by its initial capacity.
Grow_linear(v, cursor) ==
    LET offset == cursor
        grown == Resize(v, Size(v) + InitialCapacity)
    IN  [compressed |-> grown, next_out |-> offset, avail_out |-> Size(grown) - offset]

\* the JXL_ENC_NEED_MORE_OUTPUT branch: offset = next_out - compressed.data();
\* compressed.resize(compressed.size() * 2); next_out = compressed.data() + offset;
\* avail_out = compressed.size() - offset.  cursor is next_out as the engine left it.
Grow(v, cursor) ==
    LET offset == cursor
        grown == Resize(v, Size(v) * 2)
    IN  [compressed |-> grown, next_out |-> offset, avail_out |-> Size(grown) - offset]

\* A faulty variant of Trim: the buffer is returned at its capacity.
Trim_none(v, cursor) == v

\* compressed.resize(next_out - compressed.data())
Trim(v, cursor) == Resize(v, cursor)

\* one turn of the output loop: JxlEncoderProcessOutput(encoder.get(), &next_out,
\* &avail_out) and the branch on its status; on success the trimmed buffer is
\* copied into the Uint8Array that encode returns
EncProcessOutput ==
    /\ pc = "output"
    /\ \E k \in WriteAmounts(avail_out), st \in {"SUCCESS", "ERROR", "NEED_MORE_OUTPUT"} :
          LET buffer == EngineWrite(compressed, next_out, k, written)
              cursor == next_out + k
              process_result ==
                  Call("JxlEncoderProcessOutput", [avail_out |-> avail_out, wrote |-> k], st)
          IN  /\ written' = written + k
              /\ IF st = "NEED_MORE_OUTPUT"
                 THEN /\ engine_grows > 0
                      /\ engine_grows' = engine_grows - 1
                      /\ compressed' = Grow(buffer, cursor).compressed
                      /\ next_out' = Grow(buffer, cursor).next_out
                      /\ avail_out' = Grow(buffer, cursor).avail_out
                      /\ pc' = "output"
                      /\ calls' = Append(calls, process_result)
                      /\ UNCHANGED <<encoder, runner, result>>
                 ELSE /\ Leave(IF st = "SUCCESS"
                               THEN [kind |-> "bytes", bytes |-> Trim(buffer, cursor)]
                               ELSE Null,
                               <<process_result>>)
                      /\ compressed' = <<>>
                      /\ next_out' = cursor
                      /\ avail_out' = avail_out - k
                      /\ UNCHANGED engine_grows
    /\ UNCHANGED <<encInputs, fnVars, decVars>>

(* The encode calls the model runs *)

\* a valid call: a 1x1 8-bit RGB image
DefaultOptions ==
    [effort |-> 7, quality |-> 75, progressive |-> FALSE, epf |-> -1,
     lossyPalette |-> FALSE, decodingSpeedTier |-> 0, photonNoiseIso |-> 0,
     lossyModular |-> FALSE, lossless |-> FALSE, bitDepth |-> 8, inputType |-> 0,
     numChannels |-> 3, colorSpace |-> 0, premultipliedAlpha |-> FALSE]

EncodeCall(p, w, h, size, o, grows) ==
    [pthreads |-> p, width |-> w, height |-> h, image_size |-> size, options |-> o,
     engine_grows |-> grows]

\* calls that differ in what the validation reads
ValidationInputs ==
    {EncodeCall(p, w, h, size,
                [DefaultOptions EXCEPT !.numChannels = c, !.inputType = t, !.bitDepth = d], 0) :
        p \in BOOLEAN, w \in {-1, 0, 1, 2, IntMax}, h \in {-1, 0, 1, IntMax},
        size \in {0, 3, 4, 8, 12, 16, UMax(WordBits)},
        c \in 2..5, t \in -1..3, d \in {0, 8, 10, 12, 16, 32}}

\* valid calls that differ in what the configuration of the engine reads
ConfigInputs ==
    {EncodeCall(FALSE, 1, 1, c * (IF float THEN 4 ELSE 1),
                [DefaultOptions EXCEPT !.numChannels = c,
                                       !.inputType = IF float THEN 2 ELSE 0,
                                       !.bitDepth = IF float THEN 32 ELSE 8,
                                       !.premultipliedAlpha = float,
                                       !.colorSpace = cs, !.lossless = ll, !.quality = q,
                                       !.lossyModular = lm, !.progressive = pr], 0) :
        c \in {3, 4}, float \in BOOLEAN, cs \in -1..4, ll \in BOOLEAN,
        q \in {-5, 25, 30, 100, 100 + QOver}, lm \in BOOLEAN, pr \in BOOLEAN}

\* valid calls that differ in the frame options
FrameOptionInputs ==
    {EncodeCall(FALSE, 1, 1, 3,
                [DefaultOptions EXCEPT !.effort = e, !.decodingSpeedTier = tier, !.epf = f,
                                       !.photonNoiseIso = iso, !.lossyPalette = lp], 0) :
        e \in {-(IntMax + 1), 0, 1, 9, 10, IntMax}, tier \in {0, 4, 5, UMax(WordBits)},
        f \in {-2, -1, 3, 4}, iso \in {-2, 0, 1, 3, 2 * (IntMax + 1)}, lp \in BOOLEAN}

\* valid calls in which the engine asks for more output space
CollectorInputs ==
    {EncodeCall(p, 1, 1, 3, DefaultOptions, grows) : p \in BOOLEAN, grows \in 0..MaxGrow}

EncodeInputs == ValidationInputs \cup ConfigInputs \cup FrameOptionInputs \cup CollectorInputs

Init ==
    /\ \E in \in EncodeInputs :
          /\ pthreads = in.pthreads
          /\ width = in.width
          /\ height = in.height
          /\ image_size = in.image_size
          /\ options = in.options
          /\ engine_grows = in.engine_grows
    /\ pc = "start"
    /\ encoder = "unset"
    /\ runner = "unset"
    /\ calls = <<>>
    /\ compressed = <<>>
    /\ next_out = 0
    /\ avail_out = 0
    /\ written = 0
    /\ result = NoResult
    /\ IdleFn
    /\ IdleDec

Next ==
    \/ EncValidate
    \/ EncCreate
    \/ EncRunnerCreate
    \/ EncSetRunner
    \/ EncBasicInfo
    \/ EncLevel
    \/ EncAlpha
    \/ EncColor
    \/ EncFrameSettings
    \/ EncEffort
    \/ EncDecodingSpeed
    \/ EncEpf
    \/ EncPhotonNoise
    \/ EncLossyPalette
    \/ EncLossyModular
    \/ EncProgressive
    \/ EncFidelity
    \/ EncAddFrame
    \/ EncProcessOutput

Spec == Init /\ [][Next]_vars

\* encode runs to its return: no statement of it waits for anything but the
\* engine's answer
SpecLive == Spec /\ WF_vars(Next)

----------------------------------------------------------------------------
(* SpecDec: one call of decode(data), decodeHighBitDepth(data) or          *)
(* decodeLinearFloat(data)                                                 *)
(*                                                                         *)
(* Every call into the engine or into skcms is appended to dcalls.  The    *)
(* functions do not test the pointer JxlDecoderCreate returns; a call made *)
(* on a null JxlDecoder* is undefined behaviour: it answers anything, or   *)
(* the program traps (status "TRAP").  size_t is WordBits wide (wasm32).   *)

\* R, G, B, A
COMPONENTS_PER_PIXEL == 4

\* sizeof(float)
SizeofFloat == 4

\* largest icc_size the engine reports
MaxIcc == 2

DecFunctions == {"decode", "decodeHighBitDepth", "decodeLinearFloat"}

\* JxlDecoderStatus, the values a call can answer
DecStatus ==
    {"SUCCESS", "ERROR", "NEED_MORE_INPUT", "BASIC_INFO", "COLOR_ENCODING",
     "NEED_IMAGE_OUT_BUFFER", "FULL_IMAGE"}

\* the answers of a call that returns JXL_DEC_SUCCESS or JXL_DEC_ERROR
Done == {"SUCCESS", "ERROR"}

\* the answers of a bool skcms call
Bool == {"TRUE", "FALSE"}

DecNull == [kind |-> "null"]

\* what a call on dec.get() can answer, S being the answers of the API
Answers(S) == IF dec = "live" THEN S ELSE DecStatus \cup {"TRAP"}

\* the unique_ptr's deleter runs on a non-null pointer only
DecDestructor ==
    IF dec = "live" THEN <<Call("JxlDecoderDestroy", <<>>, "VOID")>> ELSE <<>>

\* return v, after the calls `made`
DecLeave(v, made) ==
    /\ dpc' = "done"
    /\ dresult' = v
    /\ dcalls' = dcalls \o made \o DecDestructor
    /\ dec' = IF dec = "live" THEN "destroyed" ELSE dec

\* the program aborts, or an exception leaves the function: nothing is
\* returned and no destructor runs
DecTrap(made) ==
    /\ dpc' = "trap"
    /\ dresult' = [kind |-> "trap"]
    /\ dcalls' = dcalls \o made
    /\ dec' = dec

\* go on at `to`, after the calls `made`
DecGoto(to, made) ==
    /\ dpc' = to
    /\ dcalls' = dcalls \o made
    /\ UNCHANGED <<dec, dresult>>

\* the calls of `made` up to the first that trapped
UpToTrap(made) ==
    SubSeq(made, 1, CHOOSE i \in 1..Len(made) :
                        made[i].status = "TRAP" /\ \A j \in 1..(i - 1) : made[j].status # "TRAP")

\* EXPECT_EQ(expected, <the last call of made>): return val::null() unless
\* the call answered `expected`
DecStep(expected, made, to) ==
    IF \E i \in 1..Len(made) : made[i].status = "TRAP" THEN DecTrap(UpToTrap(made))
    ELSE IF made[Len(made)].status # expected THEN DecLeave(DecNull, made)
    ELSE DecGoto(to, made)

\* dec(JxlDecoderCreate(nullptr)); the pointer is not tested
DecCreate ==
    /\ dpc = "start"
    /\ \E st \in {"SUCCESS", "NULL"} :
          /\ dec' = IF st = "NULL" THEN "null" ELSE "live"
          /\ dcalls' = Append(dcalls, Call("JxlDecoderCreate", <<>>, st))
    /\ dpc' = "subscribe"
    /\ UNCHANGED <<dfunc, info, icc_size, buffer_size, float_pixels, pixels_read, dresult>>
    /\ UNCHANGED <<fnVars, encVars>>

\* EXPECT_EQ(JXL_DEC_SUCCESS, JxlDecoderSubscribeEvents(dec.get(),
\*           JXL_DEC_BASIC_INFO | JXL_DEC_COLOR_ENCODING | JXL_DEC_FULL_IMAGE))
DecSubscribe ==
    /\ dpc = "subscribe"
    /\ \E st \in Answers(Done) :
          DecStep("SUCCESS",
                  <<Call("JxlDecoderSubscribeEvents",
                         {"BASIC_INFO", "COLOR_ENCODING", "FULL_IMAGE"}, st)>>,
                  "process1")
    /\ UNCHANGED <<dfunc, info, icc_size, buffer_size, float_pixels, pixels_read>>
    /\ UNCHANGED <<fnVars, encVars>>

\* JxlDecoderSetInput(dec.get(), next_in, avail_in), whose status is dropped;
\* EXPECT_EQ(JXL_DEC_BASIC_INFO, JxlDecoderProcessInput(dec.get()))
DecProcess1 ==
    /\ dpc = "process1"
    /\ \E st1 \in Answers(Done), st2 \in Answers(DecStatus) :
          DecStep("BASIC_INFO",
                  <<Call("JxlDecoderSetInput", <<>>, st1),
                    Call("JxlDecoderProcessInput", 1, st2)>>,
                  "basic_info")
    /\ UNCHANGED <<dfunc, info, icc_size, buffer_size, float_pixels, pixels_read>>
    /\ UNCHANGED <<fnVars, encVars>>

\* the image sizes the engine reports
Dims == {0, 1, 2, Pow2(WordBits - 2), Pow2(WordBits - 1), UMax(WordBits)}

BasicInfo(x, y, bits, exponent_bits, alpha_bits, premultiplied) ==
    [xsize |-> x, ysize |-> y, bits_per_sample |-> bits,
     exponent_bits_per_sample |-> exponent_bits, alpha_bits |-> alpha_bits,
     alpha_premultiplied |-> premultiplied]

\* the values JxlDecoderGetBasicInfo fills info with: 8-bit images of every
\* size, and one-pixel images of every depth
DecInfos ==
    {BasicInfo(x, y, 8, 0, 8, FALSE) : x \in Dims, y \in Dims}
    \cup {BasicInfo(1, 1, b, e, a, p) :
             b \in {1, 8, 9, 10, 11, 12, 13, 16, 32}, e \in {0, 8}, a \in {0, 8},
             p \in BOOLEAN}

\* EXPECT_EQ(JXL_DEC_SUCCESS, JxlDecoderGetBasicInfo(dec.get(), &info))
DecBasicInfo ==
    /\ dpc = "basic_info"
    /\ \E st \in Answers(Done), i \in DecInfos :
          /\ info' = IF st = "SUCCESS" THEN i ELSE info
          /\ DecStep("SUCCESS", <<Call("JxlDecoderGetBasicInfo", <<>>, st)>>, "process2")
    /\ UNCHANGED <<dfunc, icc_size, buffer_size, float_pixels, pixels_read>>
    /\ UNCHANGED <<fnVars, encVars>>

\* size_t pixel_count = info.xsize * info.ysize: a product of two uint32_t
pixel_count == CastU(info.xsize * info.ysize, WordBits)

\* size_t component_count = pixel_count * COMPONENTS_PER_PIXEL
component_count == CastU(pixel_count * COMPONENTS_PER_PIXEL, WordBits)

\* int effective_bit_depth of decodeHighBitDepth
EffectiveBitDepth == effective_bit_depth(info.bits_per_sample, info.exponent_bits_per_sample)

\* EXPECT_EQ(JXL_DEC_COLOR_ENCODING, JxlDecoderProcessInput(dec.get()))
DecProcess2 ==
    /\ dpc = "process2"
    /\ \E st \in Answers(DecStatus) :
          DecStep("COLOR_ENCODING", <<Call("JxlDecoderProcessInput", 2, st)>>, "icc_size")
    /\ UNCHANGED <<dfunc, info, icc_size, buffer_size, float_pixels, pixels_read>>
    /\ UNCHANGED <<fnVars, encVars>>

\* EXPECT_EQ(JXL_DEC_SUCCESS, JxlDecoderGetICCProfileSize(dec.get(), &format,
\*           JXL_COLOR_PROFILE_TARGET_DATA, &icc_size))
DecIccSize ==
    /\ dpc = "icc_size"
    /\ \E st \in Answers(Done), n \in 0..MaxIcc :
          /\ icc_size' = IF st = "SUCCESS" THEN n ELSE icc_size
          /\ DecStep("SUCCESS", <<Call("JxlDecoderGetICCProfileSize", <<>>, st)>>, "icc_profile")
    /\ UNCHANGED <<dfunc, info, buffer_size, float_pixels, pixels_read>>
    /\ UNCHANGED <<fnVars, encVars>>

\* icc_profile(icc_size) and EXPECT_EQ(JXL_DEC_SUCCESS,
\* JxlDecoderGetColorAsICCProfile(...)), which decodeHighBitDepth and
\* decodeLinearFloat call only if (icc_size > 0)
DecIccProfile ==
    /\ dpc = "icc_profile"
    /\ IF dfunc = "decode" \/ icc_size > 0
       THEN \E st \in Answers(Done) :
               DecStep("SUCCESS",
                       <<Call("JxlDecoderGetColorAsICCProfile", icc_size, st)>>, "process3")
       ELSE DecGoto("process3", <<>>)
    /\ UNCHANGED <<dfunc, info, icc_size, buffer_size, float_pixels, pixels_read>>
    /\ UNCHANGED <<fnVars, encVars>>

\* EXPECT_EQ(JXL_DEC_NEED_IMAGE_OUT_BUFFER, JxlDecoderProcessInput(dec.get()))
DecProcess3 ==
    /\ dpc = "process3"
    /\ \E st \in Answers(DecStatus) :
          DecStep("NEED_IMAGE_OUT_BUFFER", <<Call("JxlDecoderProcessInput", 3, st)>>,
                  "buffer_size")
    /\ UNCHANGED <<dfunc, info, icc_size, buffer_size, float_pixels, pixels_read>>
    /\ UNCHANGED <<fnVars, encVars>>

\* the samples and the bytes of the image the engine decodes
TrueSamples == info.xsize * info.ysize * COMPONENTS_PER_PIXEL

TrueBytes == TrueSamples * SizeofFloat

\* the sizes JxlDecoderImageOutBufferSize answers: the image's size, be it
\* computed without or with wrap-around in size_t, or another size
BufferSizes == {b \in {TrueBytes, CastU(TrueBytes, WordBits), 0} : b <= UMax(WordBits)}

\* EXPECT_EQ(JXL_DEC_SUCCESS, JxlDecoderImageOutBufferSize(dec.get(), &format, &buffer_size));
\* EXPECT_EQ(buffer_size, component_count * sizeof(float))
DecBufferSize ==
    /\ dpc = "buffer_size"
    /\ \E st \in Answers(Done), b \in BufferSizes :
          LET size == Call("JxlDecoderImageOutBufferSize", <<>>, st)
          IN  /\ buffer_size' = IF st = "SUCCESS" THEN b ELSE buffer_size
              /\ IF st = "SUCCESS" /\ b # CastU(component_count * SizeofFloat, WordBits)
                 THEN DecLeave(DecNull, <<size>>)
                 ELSE DecStep("SUCCESS", <<size>>, "set_out_buffer")
    /\ UNCHANGED <<dfunc, info, icc_size, float_pixels, pixels_read>>
    /\ UNCHANGED <<fnVars, encVars>>

\* float_pixels = std::make_unique<float[]>(component_count): zeroed samples;
\* it does not return when the array's size exceeds size_t or the memory is
\* exhausted;
\* EXPECT_EQ(JXL_DEC_SUCCESS, JxlDecoderSetImageOutBuffer(dec.get(), &format,
\*           float_pixels.get(), component_count * sizeof(float)))
DecSetOutBuffer ==
    /\ dpc = "set_out_buffer"
    /\ IF component_count * SizeofFloat > UMax(WordBits)
       THEN DecTrap(<<>>) /\ UNCHANGED float_pixels
       ELSE \E exhausted \in BOOLEAN, st \in Answers(Done) :
               IF exhausted THEN DecTrap(<<>>) /\ UNCHANGED float_pixels
               ELSE /\ float_pixels' = [state |-> "zero", size |-> component_count,
                                        sample |-> 0, wrote |-> 0]
                    /\ DecStep("SUCCESS",
                               <<Call("JxlDecoderSetImageOutBuffer",
                                      component_count * SizeofFloat, st)>>,
                               "process4")
    /\ UNCHANGED <<dfunc, info, icc_size, buffer_size, pixels_read>>
    /\ UNCHANGED <<fnVars, encVars>>

\* the values of a float sample, in halves: -0.5, 0, 0.5, 1, 1.5
SampleValues == {-1, 0, 1, 2, 3}

\* float_pixels once the engine reported the full image: every sample has
\* the value v; the engine wrote the image's TrueSamples samples
Filled(v) ==
    [state |-> "filled", size |-> float_pixels.size, sample |-> v, wrote |-> TrueSamples]

\* A faulty variant of DecProcess4: the status of the fourth call is not tested.
DecProcess4_unchecked ==
    /\ dpc = "process4"
    /\ \E st \in Answers(DecStatus), v \in SampleValues :
          /\ float_pixels' = IF st = "FULL_IMAGE" THEN Filled(v) ELSE float_pixels
          /\ IF st = "TRAP" THEN DecTrap(<<Call("JxlDecoderProcessInput", 4, st)>>)
             ELSE DecGoto("finish", <<Call("JxlDecoderProcessInput", 4, st)>>)
    /\ UNCHANGED <<dfunc, info, icc_size, buffer_size, pixels_read>>
    /\ UNCHANGED <<fnVars, encVars>>

\* EXPECT_EQ(JXL_DEC_FULL_IMAGE, JxlDecoderProcessInput(dec.get()))
DecProcess4 ==
    /\ dpc = "process4"
    /\ \E st \in Answers(DecStatus), v \in SampleValues :
          /\ float_pixels' = IF st = "FULL_IMAGE" THEN Filled(v) ELSE float_pixels
          /\ DecStep("FULL_IMAGE", <<Call("JxlDecoderProcessInput", 4, st)>>, "finish")
    /\ UNCHANGED <<dfunc, info, icc_size, buffer_size, pixels_read>>
    /\ UNCHANGED <<fnVars, encVars>>

\* a typed array made from a typed_memory_view of `length` elements
TypedArray(type, length, sample) == [type |-> type, length |-> length, sample |-> sample]

\* the answers of skcms_Parse(icc_profile.data(), icc_profile.size(), ...):
\* an empty profile never parses
Parses == IF icc_size > 0 THEN Bool ELSE {"FALSE"}

\* the bytes skcms_Transform writes for a sample
TransformBytes == {0, 128, 255}

\* the skcms_Transform call of the 8-bit paths
Transform(st) ==
    Call("skcms_Transform",
         [srcAlpha |-> IF info.alpha_premultiplied THEN "PremulAsEncoded" ELSE "Unpremul",
          nz |-> pixel_count], st)

\* (uint8_t)(std::max(0.0f, std::min(1.0f, v)) * 255.0f), v in halves
ToUint8(v) == (Max(0, Min(2, v)) * 255) \div 2

\* (uint16_t)(std::max(0.0f, std::min(1.0f, v)) * scale), v in halves, with
\* scale = (float)((1 << effective_bit_depth) - 1)
ToUint16(v, depth) == (Max(0, Min(2, v)) * (Pow2(depth) - 1)) \div 2

\* the bytes (uint8_t)(clamp(g, 0, 1) * 255.0f) can be for
\* g = v <= 0.0031308f ? v * 12.92f : 1.055f * powf(v, 1.0f / 2.4f) - 0.055f,
\* v in halves; at v = 1.0 the float result lies within one ulp of 1
LinearToSRGB8(v) ==
    IF v <= 0 THEN {0} ELSE IF v = 1 THEN {187} ELSE IF v = 2 THEN {254, 255} ELSE {255}

\* A faulty variant of Fallback8: the sRGB curve is applied to every source.
Fallback8_always(v) == LinearToSRGB8(v)

\* the fallback loop of decodeHighBitDepth's 8-bit path: the bytes a sample
\* can become
Fallback8(v) ==
    IF info.exponent_bits_per_sample > 0 THEN LinearToSRGB8(v) ELSE {ToUint8(v)}

\* new ImageData(data, width, height) accepts data of 4 * width * height
\* elements with width and height non-zero; an environment's constructor may
\* throw otherwise
ImageDataAccepts == {TRUE} \cup (IF info.xsize = 0 \/ info.ysize = 0 \/ component_count # TrueSamples THEN {FALSE} ELSE {})

\* decode, after the full image: byte_pixels, skcms_Parse, skcms_Transform
\* (each under EXPECT_TRUE) and ImageData.new_(Uint8ClampedArray, xsize, ysize)
DecodeFinish ==
    /\ dpc = "finish"
    /\ dfunc = "decode"
    /\ \E parsed \in Parses, transformed \in Bool, byte \in TransformBytes,
          accepted \in ImageDataAccepts :
          LET parse == Call("skcms_Parse", icc_size, parsed)
          IN  IF parsed = "FALSE"
              THEN DecLeave(DecNull, <<parse>>) /\ UNCHANGED pixels_read
              ELSE /\ pixels_read' = TRUE
                   /\ IF transformed = "FALSE"
                      THEN DecLeave(DecNull, <<parse, Transform(transformed)>>)
                      ELSE IF ~accepted THEN DecTrap(<<parse, Transform(transformed)>>)
                      ELSE DecLeave([kind |-> "ImageData",
                                     data |-> TypedArray("Uint8ClampedArray",
                                                         component_count, byte),
                                     width |-> info.xsize, height |-> info.ysize],
                                    <<parse, Transform(transformed)>>)
    /\ UNCHANGED <<dfunc, info, icc_size, buffer_size, float_pixels>>
    /\ UNCHANGED <<fnVars, encVars>>

\* A faulty variant of color_space_str: an embedded profile changes the label.
color_space_str_profile ==
    IF info.exponent_bits_per_sample > 0 THEN "linear"
    ELSE IF icc_size > 0 THEN "display-p3" ELSE "srgb"

\* std::string color_space_str
color_space_str == IF info.exponent_bits_per_sample > 0 THEN "linear" ELSE "srgb"

\* val result of decodeHighBitDepth with its "data" set
HighBitDepthResult(data) ==
    [kind |-> "object", width |-> info.xsize, height |-> info.ysize,
     bitDepth |-> EffectiveBitDepth, colorSpace |-> color_space_str,
     hasAlpha |-> info.alpha_bits > 0, iccProfile |-> icc_size, data |-> data]

\* decodeHighBitDepth, after the full image: the result object and the
\* branch on effective_bit_depth
HighBitDepthFinish ==
    /\ dpc = "finish"
    /\ dfunc = "decodeHighBitDepth"
    /\ LET v == float_pixels.sample
       IN  IF EffectiveBitDepth = 8
           THEN \E parsed \in Parses, transformed \in Bool, byte \in TransformBytes,
                   fallback \in Fallback8(v) :
                   LET parse == IF icc_size > 0
                                THEN <<Call("skcms_Parse", icc_size, parsed)>> ELSE <<>>
                   IN  IF parsed = "TRUE"
                       THEN IF transformed = "FALSE"
                            THEN DecLeave(DecNull, parse \o <<Transform(transformed)>>)
                            ELSE DecLeave(HighBitDepthResult(
                                              TypedArray("Uint8ClampedArray",
                                                         component_count, byte)),
                                          parse \o <<Transform(transformed)>>)
                       ELSE DecLeave(HighBitDepthResult(
                                         TypedArray("Uint8ClampedArray",
                                                    component_count, fallback)),
                                     parse)
           ELSE IF EffectiveBitDepth = 32
           THEN DecLeave(HighBitDepthResult(TypedArray("Float32Array", component_count, v)),
                         <<>>)
           ELSE DecLeave(HighBitDepthResult(
                             TypedArray("Uint16Array", component_count,
                                        ToUint16(v, EffectiveBitDepth))),
                         <<>>)
    /\ pixels_read' = TRUE
    /\ UNCHANGED <<dfunc, info, icc_size, buffer_size, float_pixels>>
    /\ UNCHANGED <<fnVars, encVars>>

\* decodeLinearFloat, after the full image: the result object
LinearFloatFinish ==
    /\ dpc = "finish"
    /\ dfunc = "decodeLinearFloat"
    /\ DecLeave([kind |-> "object", width |-> info.xsize, height |-> info.ysize,
                 sourceBitDepth |-> info.bits_per_sample, colorSpace |-> color_space_str,
                 iccProfile |-> icc_size,
                 data |-> TypedArray("Float32Array", component_count, float_pixels.sample)],
                <<>>)
    /\ pixels_read' = TRUE
    /\ UNCHANGED <<dfunc, info, icc_size, buffer_size, float_pixels>>
    /\ UNCHANGED <<fnVars, encVars>>

InitDec ==
    /\ dfunc \in DecFunctions
    /\ dpc = "start"
    /\ dec = "unset"
    /\ dcalls = <<>>
    /\ info = <<>>
    /\ icc_size = 0
    /\ buffer_size = 0
    /\ float_pixels = NoPixels
    /\ pixels_read = FALSE
    /\ dresult = [kind |-> "none"]
    /\ IdleFn
    /\ IdleEnc

NextDec ==
    \/ DecCreate
    \/ DecSubscribe
    \/ DecProcess1
    \/ DecBasicInfo
    \/ DecProcess2
    \/ DecIccSize
    \/ DecIccProfile
    \/ DecProcess3
    \/ DecBufferSize
    \/ DecSetOutBuffer
    \/ DecProcess4
    \/ DecodeFinish
    \/ HighBitDepthFinish
    \/ LinearFloatFinish

SpecDec == InitDec /\ [][NextDec]_vars

----------------------------------------------------------------------------
(* SpecAll: one call of any of the four exported functions *)

InitAll == Init \/ InitDec

NextAll ==
    \/ Next
    \/ NextDec

SpecAll == InitAll /\ [][NextAll]_vars

----------------------------------------------------------------------------
(* Properties of the helper functions, checked under SpecFn *)

\* the true (unbounded) product of the four factors of ComputeExpectedSize
TrueProduct == args.width * args.height * args.num_channels * args.bytes_per_sample

AnyFactorZero ==
    args.width = 0 \/ args.height = 0 \/ args.num_channels <= 0 \/ args.bytes_per_sample = 0

\* C1: for every width, height, num_channels and bytes_per_sample, and for
\* either width of size_t, ComputeExpectedSize returns true and stores the
\* exact product when the true product fits in size_t, returns false when
\* the true product exceeds the largest size_t, and returns false when a
\* factor is zero or num_channels is not positive.
C1_ExpectedSizeExact ==
    (fn = "ComputeExpectedSize" /\ fnpc = "ret") =>
        /\ AnyFactorZero => ~ret.ok
        /\ (~AnyFactorZero /\ TrueProduct <= UMax(args.size_bits)) =>
               (ret.ok /\ ret.expected_size = TrueProduct)
        /\ (~AnyFactorZero /\ TrueProduct > UMax(args.size_bits)) => ~ret.ok

\* C1's case: a product that overflows the narrow size_t and whose wrapped
\* partial products are not smaller than their factors is rejected, and the
\* same factors are accepted under the wide size_t.
C1_Witness ==
    /\ fn = "ComputeExpectedSize"
    /\ fnpc = "ret"
    /\ ~AnyFactorZero
    /\ args.size_bits = WordBits
    /\ TrueProduct > UMax(WordBits)
    /\ CastU(args.width * args.height, WordBits) >= args.width
    /\ ~ret.ok

\* |a - b| <= 0.05, the precision to which the check-point values are given
Approx(a, b) == (IF a >= b THEN a - b ELSE b - a) <= Rat(5, 100)

\* C6 as claimed: q=100 gives 0; q=30 gives 6.4 on the linear branch and the
\* exponential formula at q=30 gives about 6.4 too; q=0 gives
\* 6.4 + 2.5^6/6.25, about 65.4.
C6_Original ==
    (fn = "Distance" /\ fnpc = "ret") =>
        /\ args.q1 = 100 => ret.d1 = 0
        /\ args.q1 = 30 => (ret.d1 = Rat(64, 10) /\ Approx(ret.exp1, Rat(64, 10)))
        /\ args.q1 = 0 => (ret.d1 = Rat(64, 10) + (PowRat(5, 2, 6) * 100) \div 625
                           /\ Approx(ret.d1, Rat(654, 10)))

\* C6 (amended): q=100 gives 0; q=30 gives 6.4 on the linear branch, while the
\* exponential formula at q=30 gives 6.4 + 1/6.25 = 6.56 (the mapping steps
\* down by 0.16 at q=30); q=0 gives 6.4 + 2.5^6/6.25 = 45.4625.
C6_CheckPoints ==
    (fn = "Distance" /\ fnpc = "ret") =>
        /\ args.q1 = 100 => ret.d1 = 0
        /\ args.q1 = 30 => (ret.d1 = Rat(64, 10) /\ ret.exp1 = Rat(656, 100))
        /\ args.q1 = 0 => (ret.d1 = Rat(64, 10) + (PowRat(5, 2, 6) * 100) \div 625
                           /\ ret.d1 = Rat(454625, 10000))

\* C6's case: the mapping was evaluated at the breakpoint q=30, where the two
\* branch formulas differ.
C6_Witness ==
    /\ fn = "Distance"
    /\ fnpc = "ret"
    /\ args.q1 = 30
    /\ ret.d1 = ret.linear1
    /\ ret.exp1 > ret.d1

\* C7: with lossless=false the distance is monotonic non-increasing in the
\* quality over the whole input domain, values outside [0,100] included:
\* q1 <= q2 implies distance(q1) >= distance(q2).
C7_Monotonic ==
    (fn = "Distance" /\ fnpc = "ret" /\ args.q1 <= args.q2) => ret.d1 >= ret.d2

\* C7's case: two qualities on either side of the breakpoint q=30, the lower
\* one below the valid range.
C7_Witness ==
    /\ fn = "Distance"
    /\ fnpc = "ret"
    /\ args.q1 < 0
    /\ args.q2 >= 30
    /\ args.q2 < 100
    /\ ret.d1 > ret.d2

\* C9: SetupColorEncoding maps sRGB (0) to linear sRGB for float input and to
\* standard sRGB otherwise; Display-P3 (1) to RGB, P3 primaries, D65, linear
\* transfer for float input and sRGB transfer otherwise; Rec2020-PQ (2) to
\* BT.2100 primaries, D65, PQ; Rec2020-HLG (3) to BT.2100 primaries, D65, HLG,
\* both for every input type; and it fails for every other colorSpace.
C9_ColorTable ==
    (fn = "SetupColorEncoding" /\ fnpc = "ret") =>
        LET cs == args.color_space
            float == args.input_type = 2
            ce == ret.color_encoding
        IN  /\ ret.ok <=> cs \in 0..3
            /\ ret.ok => (ce.color_space = "RGB" /\ ce.white_point = "D65")
            /\ cs = 0 => /\ ce.primaries = "SRGB"
                         /\ ce.transfer_function = IF float THEN "LINEAR" ELSE "SRGB"
            /\ cs = 1 => /\ ce.primaries = "P3"
                         /\ ce.transfer_function = IF float THEN "LINEAR" ELSE "SRGB"
            /\ cs = 2 => (ce.primaries = "2100" /\ ce.transfer_function = "PQ")
            /\ cs = 3 => (ce.primaries = "2100" /\ ce.transfer_function = "HLG")

\* C9's case: Rec2020-HLG was asked for with a float input.
C9_Witness ==
    /\ fn = "SetupColorEncoding"
    /\ fnpc = "ret"
    /\ args.color_space = 3
    /\ args.input_type = 2
    /\ ret.ok
    /\ ret.color_encoding.transfer_function = "HLG"

\* C10: the effective bit depth is 32 when exponent_bits > 0 whatever
\* bits_per_sample is; otherwise 8 for bits_per_sample <= 8, 10 for <= 10,
\* 12 for <= 12 and 16 above; so it is always one of 8, 10, 12, 16, 32.
C10_EffectiveBitDepth ==
    (fn = "effective_bit_depth" /\ fnpc = "ret") =>
        LET b == args.bits_per_sample
            e == args.exponent_bits
            d == ret.effective_bit_depth
        IN  /\ e > 0 => d = 32
            /\ (e = 0 /\ b <= 8) => d = 8
            /\ (e = 0 /\ b > 8 /\ b <= 10) => d = 10
            /\ (e = 0 /\ b > 10 /\ b <= 12) => d = 12
            /\ (e = 0 /\ b > 12) => d = 16
            /\ d \in {8, 10, 12, 16, 32}

\* C10's case: a float bitstream whose bits_per_sample alone would select the
\* 8-bit representation.
C10_Witness ==
    /\ fn = "effective_bit_depth"
    /\ fnpc = "ret"
    /\ args.exponent_bits = 8
    /\ args.bits_per_sample <= 8
    /\ ret.effective_bit_depth = 32

----------------------------------------------------------------------------
(* Properties of encode, checked under Spec *)

HasCall(f) == \E i \in DOMAIN calls : calls[i].fn = f

CallsOf(f) == {i \in DOMAIN calls : calls[i].fn = f}

\* the validation rules, stated on the arguments: positive dimensions, 3 or 4
\* channels, a supported (inputType, bitDepth) pair, and a buffer whose length
\* is the true product width*height*numChannels*bytesPerSample, which fits
\* in size_t
SampleBytes == IF options.inputType = 0 THEN 1 ELSE IF options.inputType = 1 THEN 2 ELSE 4

TrueSize == width * height * options.numChannels * SampleBytes

RulesPass ==
    /\ width > 0
    /\ height > 0
    /\ options.numChannels \in {3, 4}
    /\ <<options.inputType, options.bitDepth>> \in
           {<<0, 8>>, <<1, 10>>, <<1, 12>>, <<1, 16>>, <<2, 32>>}
    /\ TrueSize <= UMax(WordBits)
    /\ TrueSize = image_size

\* C2: when a validation rule is violated encode returns null without
\* having created an engine object (no JxlEncoderCreate, no parallel runner)
\* and without any other effect; an engine object exists only after every
\* rule passed.
C2_FailFast ==
    /\ (pc # "start" /\ ~RulesPass) =>
           /\ pc = "done"
           /\ result = Null
           /\ calls = <<>>
           /\ encoder = "unset"
           /\ runner = "unset"
           /\ compressed = <<>>
           /\ written = 0
    /\ (calls # <<>> \/ encoder # "unset" \/ runner # "unset") => RulesPass

\* C2's case: a call whose true size overflows size_t and whose wrapped size
\* equals the buffer length was rejected before any engine call.
C2_Witness ==
    /\ pc = "done"
    /\ result = Null
    /\ calls = <<>>
    /\ width > 0
    /\ height > 0
    /\ options.numChannels \in {3, 4}
    /\ IsSupportedCombination(options.inputType, options.bitDepth)
    /\ TrueSize > UMax(WordBits)
    /\ CastU(TrueSize, WordBits) = image_size

\* the place of an engine call in the configuration sequence; 0 for the
\* calls that create or release an engine object
Rank(f) ==
    CASE f = "JxlEncoderSetBasicInfo" -> 1
      [] f = "JxlEncoderGetRequiredCodestreamLevel" -> 2
      [] f = "JxlEncoderSetCodestreamLevel" -> 3
      [] f = "JxlEncoderSetExtraChannelInfo" -> 4
      [] f = "JxlEncoderSetColorEncoding" -> 5
      [] f = "JxlEncoderFrameSettingsCreate" -> 6
      [] f = "JxlEncoderFrameSettingsSetOption" -> 7
      [] f = "JxlEncoderSetFrameLossless" -> 8
      [] f = "JxlEncoderSetFrameDistance" -> 8
      [] f = "JxlEncoderAddImageFrame" -> 9
      [] f = "JxlEncoderCloseInput" -> 10
      [] f = "JxlEncoderProcessOutput" -> 11
      [] OTHER -> 0

\* the calls made once at most
OnceCalls ==
    {"JxlEncoderSetBasicInfo", "JxlEncoderGetRequiredCodestreamLevel",
     "JxlEncoderSetCodestreamLevel", "JxlEncoderSetExtraChannelInfo",
     "JxlEncoderSetColorEncoding", "JxlEncoderFrameSettingsCreate",
     "JxlEncoderAddImageFrame", "JxlEncoderCloseInput"}

\* a configuration call (one before the frame is submitted) failed
ConfigFailed == \E i \in DOMAIN calls : Failed(calls[i]) /\ Rank(calls[i].fn) \in 1..8

\* C3: the engine is configured in the order basic info, required-level
\* query (and set level 10), extra-channel info, colour encoding, frame
\* settings, lossless flag or distance; the frame is submitted only if every
\* step before it succeeded; and when a step fails (an unrecognised
\* colorSpace included) encode returns null, no frame is ever submitted and no
\* output is ever pulled.
C3_StrictOrder ==
    /\ \A i, j \in DOMAIN calls :
          (i < j /\ Rank(calls[i].fn) > 0 /\ Rank(calls[j].fn) > 0) =>
              Rank(calls[i].fn) <= Rank(calls[j].fn)
    /\ \A f \in OnceCalls : Cardinality(CallsOf(f)) <= 1
    /\ HasCall("JxlEncoderAddImageFrame") =>
          /\ ~ConfigFailed
          /\ HasCall("JxlEncoderSetBasicInfo")
          /\ HasCall("JxlEncoderGetRequiredCodestreamLevel")
          /\ \A i \in CallsOf("JxlEncoderGetRequiredCodestreamLevel") :
                /\ calls[i].level >= 0
                /\ calls[i].level = 10 <=> HasCall("JxlEncoderSetCodestreamLevel")
          /\ options.numChannels = 4 <=> HasCall("JxlEncoderSetExtraChannelInfo")
          /\ options.colorSpace \in 0..3
          /\ HasCall("JxlEncoderSetColorEncoding")
          /\ HasCall("JxlEncoderFrameSettingsCreate")
          /\ HasCall("JxlEncoderSetFrameLossless") \/ HasCall("JxlEncoderSetFrameDistance")
    /\ (ConfigFailed \/ (options.colorSpace \notin 0..3 /\ pc = "done")) =>
          /\ pc = "done"
          /\ result = Null
          /\ ~HasCall("JxlEncoderAddImageFrame")
          /\ ~HasCall("JxlEncoderProcessOutput")
    /\ options.colorSpace \notin 0..3 =>
          /\ ~HasCall("JxlEncoderSetColorEncoding")
          /\ ~HasCall("JxlEncoderAddImageFrame")
    /\ HasCall("JxlEncoderProcessOutput") =>
          \E i \in CallsOf("JxlEncoderAddImageFrame") : ~Failed(calls[i])

\* C3's case: an RGBA encode with an unrecognised colorSpace stopped after
\* the extra-channel step.
C3_Witness ==
    /\ pc = "done"
    /\ result = Null
    /\ options.colorSpace = 4
    /\ ~ConfigFailed
    /\ HasCall("JxlEncoderSetExtraChannelInfo")
    /\ ~HasCall("JxlEncoderFrameSettingsCreate")

\* the bytes 0 .. n-1 of the engine's stream, in order
StreamPrefix(n) == Normalise(<<Run(n, 0)>>)

\* C5: in the output loop the cursor satisfies 0 <= offset <= capacity and
\* the free space is capacity - offset; the bytes written so far keep their
\* values and positions across every growth; and the buffer returned has
\* exactly the bytes the engine wrote, no more.
C5_Collector ==
    /\ pc = "output" =>
          /\ 0 <= next_out
          /\ next_out <= Size(compressed)
          /\ avail_out = Size(compressed) - next_out
          /\ next_out = written
          /\ Take(compressed, next_out) = StreamPrefix(written)
    /\ result.kind = "bytes" =>
          /\ Size(result.bytes) = written
          /\ result.bytes = StreamPrefix(written)

\* C5's case: the engine asked twice for more space, wrote past the initial
\* capacity, and encode returned a buffer.
C5_Witness ==
    /\ result.kind = "bytes"
    /\ Cardinality({i \in DOMAIN calls : calls[i].status = "NEED_MORE_OUTPUT"}) >= 2
    /\ written > InitialCapacity
    /\ written < 4 * InitialCapacity
    /\ Size(result.bytes) = written

\* C8: an encode that reaches frame submission has applied exactly one of the
\* two fidelity settings: with lossless the lossless mode is set and no
\* distance is ever set, whatever the quality; without it a distance is set
\* and the lossless mode never is.
C8_ExactlyOneFidelity ==
    /\ options.lossless => ~HasCall("JxlEncoderSetFrameDistance")
    /\ ~options.lossless => ~HasCall("JxlEncoderSetFrameLossless")
    /\ HasCall("JxlEncoderAddImageFrame") =>
          IF options.lossless
          THEN /\ Cardinality(CallsOf("JxlEncoderSetFrameLossless")) = 1
               /\ \A i \in CallsOf("JxlEncoderSetFrameLossless") :
                     calls[i].arg = TRUE /\ ~Failed(calls[i])
          ELSE /\ Cardinality(CallsOf("JxlEncoderSetFrameDistance")) = 1
               /\ \A i \in CallsOf("JxlEncoderSetFrameDistance") : ~Failed(calls[i])

\* C8's case: a lossless encode with a quality below 100 submitted its frame.
C8_Witness ==
    /\ HasCall("JxlEncoderAddImageFrame")
    /\ options.lossless
    /\ options.quality < 100
    /\ HasCall("JxlEncoderSetFrameLossless")

----------------------------------------------------------------------------
(* Properties of the decode functions, checked under SpecDec *)

IsProcessInput(c) == c.fn = "JxlDecoderProcessInput"

\* the JxlDecoderProcessInput calls made so far, in order
Processed == SelectSeq(dcalls, IsProcessInput)

\* the statuses the functions expect of the successive calls
ProtocolOrder == <<"BASIC_INFO", "COLOR_ENCODING", "NEED_IMAGE_OUT_BUFFER", "FULL_IMAGE">>

\* where in dcalls the n-th JxlDecoderProcessInput call is
IndexOfProcess(n) ==
    CHOOSE i \in DOMAIN dcalls :
        /\ IsProcessInput(dcalls[i])
        /\ Cardinality({j \in 1..i : IsProcessInput(dcalls[j])}) = n

\* the first n process-input calls answered what the protocol expects
InOrder(n) ==
    /\ Len(Processed) >= n
    /\ \A i \in 1..n : Processed[i].status = ProtocolOrder[i]

\* C4: decode, decodeHighBitDepth and decodeLinearFloat return a non-null
\* result only if the successive process-input statuses were exactly
\* basic-info, color-encoding, need-image-out-buffer, full-image, with the
\* output buffer allocated and set between the third and the fourth; a call
\* that answers any other status is the last one and the function returns
\* null; and float_pixels is not read before full-image was reported.
C4_Protocol ==
    /\ Len(Processed) <= 4
    /\ dresult.kind \in {"ImageData", "object"} =>
          /\ Len(Processed) = 4
          /\ InOrder(4)
          /\ float_pixels.state = "filled"
          /\ \E i \in DOMAIN dcalls :
                /\ dcalls[i].fn = "JxlDecoderSetImageOutBuffer"
                /\ dcalls[i].status = "SUCCESS"
                /\ IndexOfProcess(3) < i
                /\ i < IndexOfProcess(4)
    /\ \A i \in DOMAIN Processed :
          (Processed[i].status # ProtocolOrder[i] /\ Processed[i].status # "TRAP") =>
              /\ i = Len(Processed)
              /\ dpc = "done"
              /\ dresult = DecNull
    /\ float_pixels.state # "unset" => InOrder(3)
    /\ \A i \in DOMAIN dcalls : dcalls[i].fn = "JxlDecoderSetImageOutBuffer" => InOrder(3)
    /\ pixels_read => InOrder(4)

\* C4's case: decodeHighBitDepth returned its object after the four
\* statuses, having read the pixels.
C4_Witness ==
    /\ dfunc = "decodeHighBitDepth"
    /\ dresult.kind = "object"
    /\ dec = "destroyed"
    /\ pixels_read
    /\ InOrder(4)
    /\ dresult.data.length = TrueSamples
    /\ TrueSamples > 0

\* decodeHighBitDepth returned its object, the engine being a live one
HighBitDepthReturned ==
    /\ dfunc = "decodeHighBitDepth"
    /\ dresult.kind = "object"
    /\ dec # "null"

\* the representation the bit depth selects: 8-bit integers for 8, the float
\* samples themselves for 32, and for 10, 12 and 16 the 16-bit integer
\* trunc(clamp(v, 0, 1) * (2^bitDepth - 1)), v being float_pixels' sample in
\* halves
RepresentationFollowsDepth ==
    LET d == dresult.bitDepth
        v == float_pixels.sample
        data == dresult.data
    IN  /\ d \in {8, 10, 12, 16, 32}
        /\ d = 8 => data.type = "Uint8ClampedArray" /\ data.sample \in 0..255
        /\ d = 32 => data.type = "Float32Array" /\ data.sample = v
        /\ d \in {10, 12, 16} =>
              /\ data.type = "Uint16Array"
              /\ data.sample = (Clamp(v, 0, 2) * (Pow2(d) - 1)) \div 2
              /\ data.sample \in 0..(Pow2(d) - 1)

\* the part of C11 that holds: the effective bit depth alone selects the
\* representation and 10/12/16-bit samples lie in [0, 2^bitDepth - 1]
C11_Representation == HighBitDepthReturned => RepresentationFollowsDepth

\* C11: in decodeHighBitDepth the effective bit depth alone selects the
\* representation (8 -> 8-bit integers, 32 -> the float samples unchanged,
\* 10/12/16 -> clamp(v,0,1) * (2^bitDepth - 1) truncated, within
\* [0, 2^bitDepth - 1]), and the data has exactly width*height*4 samples.
C11_Original ==
    HighBitDepthReturned =>
        /\ RepresentationFollowsDepth
        /\ dresult.data.length = dresult.width * dresult.height * 4

\* C11's failing case: an object whose data has fewer samples than
\* width*height*4, the sample count having wrapped around
C11_Witness ==
    /\ HighBitDepthReturned
    /\ dec = "destroyed"
    /\ RepresentationFollowsDepth
    /\ dresult.width * dresult.height * 4 > UMax(WordBits)
    /\ dresult.data.length = CastU(dresult.width * dresult.height * 4, WordBits)

\* a function on an 8-bit path returned, after a live engine reported the
\* full image
EightBitPathReturned ==
    /\ dpc = "done"
    /\ dec = "destroyed"
    /\ InOrder(4)
    /\ \/ dfunc = "decode"
       \/ dfunc = "decodeHighBitDepth" /\ EffectiveBitDepth = 8

\* skcms parsed the embedded profile
ProfileParsed ==
    /\ icc_size > 0
    /\ \E i \in DOMAIN dcalls : dcalls[i].fn = "skcms_Parse" /\ dcalls[i].status = "TRUE"

TransformFailed ==
    \E i \in DOMAIN dcalls : dcalls[i].fn = "skcms_Transform" /\ dcalls[i].status = "FALSE"

\* without a usable profile the call returns pixels; it returns null only
\* when the profile parsed and the transform failed
FallbackPolicy ==
    /\ ~ProfileParsed => dresult.kind \in {"ImageData", "object"}
    /\ dresult = DecNull => ProfileParsed /\ TransformFailed

\* the part of C12 that holds: the policy on decodeHighBitDepth's 8-bit path
C12_HighBitDepthFallback ==
    (EightBitPathReturned /\ dfunc = "decodeHighBitDepth") =>
        /\ FallbackPolicy
        /\ (~ProfileParsed => dresult.data.sample = ToUint8(float_pixels.sample))

\* C12: on every 8-bit decode path (decode, and decodeHighBitDepth with
\* effective depth 8), when no profile is present or it fails to parse the
\* call falls back to the manual transform and returns pixels; it returns
\* null only when the profile parsed and the colour-managed transform failed.
C12_Original == EightBitPathReturned => FallbackPolicy

\* C12's failing case: decode got the full image, skcms_Parse refused the
\* profile, and decode returned null
C12_Witness ==
    /\ EightBitPathReturned
    /\ dfunc = "decode"
    /\ icc_size > 0
    /\ dcalls[Len(dcalls) - 1] = Call("skcms_Parse", icc_size, "FALSE")
    /\ dresult = DecNull
    /\ ~pixels_read

----------------------------------------------------------------------------
(* Properties of all four functions, checked under SpecAll *)

\* the engine object could not be constructed
NoEngineObject ==
    \/ \E i \in DOMAIN calls : calls[i].fn = "JxlEncoderCreate" /\ calls[i].status = "NULL"
    \/ \E i \in DOMAIN dcalls : dcalls[i].fn = "JxlDecoderCreate" /\ dcalls[i].status = "NULL"

\* the part of C13 that holds: encode returns null at once when
\* JxlEncoderCreate or JxlThreadParallelRunnerCreate yields no object, and
\* calls nothing on the missing object
C13_EncodeResourceError ==
    /\ encoder = "null" => pc = "done" /\ result = Null /\ Len(calls) = 1
    /\ runner = "null" =>
          /\ pc = "done"
          /\ result = Null
          /\ ~HasCall("JxlEncoderSetParallelRunner")
          /\ ~HasCall("JxlThreadParallelRunnerDestroy")

\* C13: in encode and in each of the three decode functions, when the
\* construction of the engine object yields no object the call returns null
\* and performs no further engine operation on the missing object.
C13_Original ==
    /\ C13_EncodeResourceError
    /\ (dec = "null" /\ dpc # "subscribe") =>
          /\ dpc = "done"
          /\ dresult = DecNull
          /\ Len(dcalls) = 1

\* C13's failing case: JxlDecoderCreate returned a null pointer and the
\* function went on to call JxlDecoderProcessInput on it
C13_Witness ==
    /\ dec = "null"
    /\ NoEngineObject
    /\ \E i \in DOMAIN dcalls : IsProcessInput(dcalls[i])

----------------------------------------------------------------------------
(* Further properties of the decode functions, checked under SpecDec *)

\* C14: for every xsize and ysize the bitstream reports, a decode call
\* either fails or allocates a float buffer of exactly the true product
\* xsize*ysize*4 samples (xsize*ysize*4*4 bytes); a product that wraps
\* around never leads to an undersized buffer being handed to the engine or
\* returned to the caller.
C14_Original ==
    dec # "null" =>
        /\ float_pixels.state # "unset" => float_pixels.size = TrueSamples
        /\ \A i \in DOMAIN dcalls :
              dcalls[i].fn = "JxlDecoderSetImageOutBuffer" => dcalls[i].arg = TrueBytes
        /\ dresult.kind \in {"ImageData", "object"} => dresult.data.length = TrueSamples

\* the part of C14 that holds: when no product wraps the buffer has the
\* image's size
C14_ExactWithoutWrap ==
    (dec # "null" /\ float_pixels.state # "unset" /\ TrueBytes <= UMax(WordBits)) =>
        /\ float_pixels.size = TrueSamples
        /\ buffer_size = TrueBytes

\* C14's failing case: the engine was handed, and filled, a buffer smaller
\* than the image it wrote
C14_Witness ==
    /\ dec = "live"
    /\ float_pixels.state = "filled"
    /\ float_pixels.wrote > float_pixels.size
    /\ \E i \in DOMAIN dcalls :
          /\ dcalls[i].fn = "JxlDecoderSetImageOutBuffer"
          /\ dcalls[i].status = "SUCCESS"
          /\ dcalls[i].arg < TrueBytes

----------------------------------------------------------------------------
(* Further properties of the helper functions, checked under SpecFn *)

\* the supported (inputType, bitDepth) pairs: (uint8,8), (uint16,10),
\* (uint16,12), (uint16,16), (float32,32)
SupportedPairs == {<<0, 8>>, <<1, 10>>, <<1, 12>>, <<1, 16>>, <<2, 32>>}

\* C15: IsSupportedCombination accepts exactly the five supported pairs and
\* rejects every other (inputType, bitDepth); in particular it rejects
\* (uint8,16), accepts (uint16,12), and rejects every inputType outside
\* {0, 1, 2}.
C15_SupportedExactly ==
    (fn = "IsSupportedCombination" /\ fnpc = "ret") =>
        /\ ret.ok <=> <<args.input_type, args.bit_depth>> \in SupportedPairs
        /\ (args.input_type = 0 /\ args.bit_depth = 16) => ~ret.ok
        /\ (args.input_type = 1 /\ args.bit_depth = 12) => ret.ok
        /\ args.input_type \notin {0, 1, 2} => ~ret.ok

\* C15's case: the helper was applied to (uint16,12) and accepted it.
C15_Witness ==
    /\ fn = "IsSupportedCombination"
    /\ fnpc = "ret"
    /\ args.input_type = 1
    /\ args.bit_depth = 12
    /\ ret.ok

----------------------------------------------------------------------------
(* Termination of encode's output loop, checked under SpecLive *)

IsProcessOutput(c) == c.fn = "JxlEncoderProcessOutput"

\* the need-more-output answers so far
NeedMore ==
    Cardinality({i \in DOMAIN calls :
                    IsProcessOutput(calls[i]) /\ calls[i].status = "NEED_MORE_OUTPUT"})

\* the capacity is 8192 * 2^N after N need-more-output answers, and an
\* answer other than need-more-output is the last one: encode has returned
CollectorGrowth ==
    /\ pc = "output" => Size(compressed) = 8192 * Pow2(NeedMore)
    /\ result.kind = "bytes" => Size(result.bytes) <= 8192 * Pow2(NeedMore)
    /\ \A i \in DOMAIN calls :
          (IsProcessOutput(calls[i]) /\ calls[i].status # "NEED_MORE_OUTPUT") =>
              /\ pc = "done"
              /\ \A j \in DOMAIN calls : IsProcessOutput(calls[j]) => j <= i
              /\ result = IF calls[i].status = "SUCCESS"
                          THEN [kind |-> "bytes", bytes |-> StreamPrefix(written)]
                          ELSE Null

\* C18: the output collector starts with capacity 8192 and doubles exactly
\* once per need-more-output answer, so its capacity is 8192 * 2^N after N
\* such answers; the loop ends as soon as the engine answers success or
\* failure, and so ends in every execution in which the engine eventually
\* answers something other than need-more-output.
C18_GrowthAndTermination ==
    /\ []CollectorGrowth
    /\ (pc = "output") ~> (pc = "done")

\* C18's case: two need-more-output answers, the capacity being 4 * 8192.
C18_Witness ==
    /\ pc = "output"
    /\ NeedMore = 2
    /\ Size(compressed) = 32768
    /\ engine_grows = 0

----------------------------------------------------------------------------
(* Release of the engine objects, checked under SpecAll *)

\* how many calls of f the log has
Count(log, f) == Cardinality({i \in DOMAIN log : log[i].fn = f})

\* how many objects f created
Created(log, f) ==
    Cardinality({i \in DOMAIN log : log[i].fn = f /\ log[i].status = "SUCCESS"})

\* the object create made is released by destroy exactly once when the
\* function has returned and not before, and after its release the log
\* holds nothing but the calls in `later`
ReleasedOnce(log, returned, create, destroy, later) ==
    /\ Created(log, create) <= 1
    /\ Count(log, destroy) = IF returned THEN Created(log, create) ELSE 0
    /\ \A i, j \in DOMAIN log : (log[i].fn = destroy /\ i < j) => log[j].fn \in later

\* C19: on every return of encode and of each decode function, successful
\* or not, the engine instance the call created (and its parallel runner
\* when there is one) has been released exactly once, and no engine
\* operation comes after the release.
C19_ReleasedExactlyOnce ==
    /\ ReleasedOnce(calls, pc = "done", "JxlEncoderCreate", "JxlEncoderDestroy", {})
    /\ ReleasedOnce(calls, pc = "done", "JxlThreadParallelRunnerCreate",
                    "JxlThreadParallelRunnerDestroy", {"JxlEncoderDestroy"})
    /\ ReleasedOnce(dcalls, dpc = "done", "JxlDecoderCreate", "JxlDecoderDestroy", {})
    /\ pc = "done" => encoder \in {"unset", "null", "destroyed"}
                      /\ runner \in {"unset", "null", "destroyed"}
    /\ dpc = "done" => dec \in {"null", "destroyed"}

\* C19's case: encode failed after creating both objects and returned null,
\* both released.
C19_Witness ==
    /\ pc = "done"
    /\ result = Null
    /\ Created(calls, "JxlEncoderCreate") = 1
    /\ Created(calls, "JxlThreadParallelRunnerCreate") = 1
    /\ Count(calls, "JxlThreadParallelRunnerDestroy") = 1
    /\ calls[Len(calls)].fn = "JxlEncoderDestroy"
    /\ HasCall("JxlEncoderSetBasicInfo")

----------------------------------------------------------------------------
(* The manual 8-bit transform, checked under SpecDec *)

\* decodeHighBitDepth is in, or has returned from, its 8-bit path
InEightBitPath ==
    /\ dfunc = "decodeHighBitDepth"
    /\ InOrder(4)
    /\ EffectiveBitDepth = 8

\* the 8-bit path's manual transform produced the data returned
ManualTransformUsed ==
    /\ InEightBitPath
    /\ dresult.kind = "object"
    /\ ~ProfileParsed

\* C20: in the manual fallback of the 8-bit path the gamma curve is applied
\* to a sample exactly when exponent_bits > 0 and skipped otherwise; and,
\* the 8-bit path being entered only with effective bit depth 8, no state
\* with effective depth 8 and exponent_bits > 0 is reachable: every sample
\* of the fallback is trunc(clamp(v, 0, 1) * 255), without the curve.
C20_GammaBranch ==
    /\ InEightBitPath => info.exponent_bits_per_sample = 0
    /\ ManualTransformUsed =>
          /\ dresult.data.sample \in
                (IF info.exponent_bits_per_sample > 0
                 THEN LinearToSRGB8(float_pixels.sample)
                 ELSE {(Clamp(float_pixels.sample, 0, 2) * 255) \div 2})
          /\ dresult.data.sample = (Clamp(float_pixels.sample, 0, 2) * 255) \div 2
          /\ dresult.colorSpace = "srgb"

\* C20's case: the fallback turned the sample 0.5 of a non-float source
\* into 127, where the curve would have given 187.
C20_Witness ==
    /\ ManualTransformUsed
    /\ icc_size = 0
    /\ info.exponent_bits_per_sample = 0
    /\ float_pixels.sample = 1
    /\ dresult.data.sample = 127

----------------------------------------------------------------------------
(* Further properties of encode, checked under Spec *)

\* the places in the call log at which a frame option is set
OptionCalls(option) ==
    {i \in DOMAIN calls : /\ calls[i].fn = "JxlEncoderFrameSettingsSetOption"
                          /\ calls[i].arg[1] = option}

\* the frame option was set once, to `value`, and the engine accepted it
Enabled1(option, value) ==
    /\ Cardinality(OptionCalls(option)) = 1
    /\ \A i \in OptionCalls(option) : calls[i].arg[2] = value /\ ~Failed(calls[i])

\* encode has gone past the statement that applies the progressive settings
PastProgressive ==
    \/ pc = "fidelity"
    \/ HasCall("JxlEncoderSetFrameLossless")
    \/ HasCall("JxlEncoderSetFrameDistance")
    \/ HasCall("JxlEncoderAddImageFrame")

\* C21: with progressive requested, an encode that goes on past the
\* progressive settings has enabled progressive AC and responsive transforms,
\* in this order, and has enabled progressive DC (after them) if and only if
\* lossyModular is not set; without progressive none of the three settings
\* is ever applied.
C21_Progressive ==
    /\ ~options.progressive =>
          /\ OptionCalls("QPROGRESSIVE_AC") = {}
          /\ OptionCalls("RESPONSIVE") = {}
          /\ OptionCalls("PROGRESSIVE_DC") = {}
    /\ (options.progressive /\ PastProgressive) =>
          /\ Enabled1("QPROGRESSIVE_AC", 1)
          /\ Enabled1("RESPONSIVE", 1)
          /\ \A i \in OptionCalls("QPROGRESSIVE_AC"), j \in OptionCalls("RESPONSIVE") : i < j
          /\ IF options.lossyModular
             THEN OptionCalls("PROGRESSIVE_DC") = {}
             ELSE /\ Enabled1("PROGRESSIVE_DC", 1)
                  /\ \A i \in OptionCalls("RESPONSIVE"), j \in OptionCalls("PROGRESSIVE_DC") : i < j
    /\ (options.progressive /\ options.lossyModular) => OptionCalls("PROGRESSIVE_DC") = {}

\* C21's case: a progressive, lossy-modular encode returned its bytes having
\* enabled progressive AC and responsive transforms, and not progressive DC.
C21_Witness ==
    /\ result.kind = "bytes"
    /\ options.progressive
    /\ options.lossyModular
    /\ Enabled1("QPROGRESSIVE_AC", 1)
    /\ Enabled1("RESPONSIVE", 1)
    /\ OptionCalls("PROGRESSIVE_DC") = {}

\* encode has gone past the statements that apply effort, decoding speed,
\* the edge-preserving filter and photon noise
PastFrameOptions ==
    \/ pc \in {"lossy_palette", "lossy_modular", "progressive"}
    \/ PastProgressive

\* the values of a frame option that reached the engine
ValuesOf(option) == {calls[i].arg[2] : i \in OptionCalls(option)}

\* what the four statements pass whatever the options are: effort clamped
\* to [1,9], the decoding speed tier clamped to [0,4], the filter strength
\* only when it lies in [-1,3], photon noise only when it is positive; and
\* encode leaves none of these statements unless the engine rejects a call
ClampsAndGuards ==
    /\ ValuesOf("EFFORT") \subseteq {Clamp(options.effort, 1, 9)}
    /\ ValuesOf("EFFORT") \subseteq 1..9
    /\ ValuesOf("DECODING_SPEED") \subseteq {Min(options.decodingSpeedTier, 4)}
    /\ ValuesOf("DECODING_SPEED") \subseteq 0..4
    /\ ValuesOf("EPF") \subseteq {options.epf} \cap (-1..3)
    /\ OptionCalls("PHOTON_NOISE") # {} => options.photonNoiseIso > 0
    /\ PastFrameOptions =>
          /\ Cardinality(OptionCalls("EFFORT")) = 1
          /\ Cardinality(OptionCalls("DECODING_SPEED")) = 1
          /\ Cardinality(OptionCalls("EPF")) = (IF options.epf \in -1..3 THEN 1 ELSE 0)
          /\ Cardinality(OptionCalls("PHOTON_NOISE")) =
                (IF options.photonNoiseIso > 0 THEN 1 ELSE 0)
    /\ (pc = "done" /\ result = Null /\ RulesPass /\ options.colorSpace \in 0..3) =>
          \E i \in DOMAIN calls : Failed(calls[i])

\* C22 as stated: the clamps and guards above, and no photon-noise value
\* other than a positive one reaches the engine.
C22_Original ==
    /\ ClampsAndGuards
    /\ \A v \in ValuesOf("PHOTON_NOISE") : v > 0

\* C22, where the code keeps it: the clamps and guards hold for every value
\* of the options, and the photon-noise value passed is the nearest integer
\* of photonNoiseIso whenever an int32_t holds that integer.
C22_ClampsAndGuards ==
    /\ ClampsAndGuards
    /\ RoundHalves(options.photonNoiseIso) <= IntMax =>
          ValuesOf("PHOTON_NOISE") \subseteq {RoundHalves(options.photonNoiseIso)}

\* C22's case: an encode with every one of the four options out of range
\* returned its bytes, having passed effort 9 and tier 4 and neither filter
\* nor noise.
C22_Witness ==
    /\ result.kind = "bytes"
    /\ options.effort > 9
    /\ options.decodingSpeedTier > 4
    /\ options.epf > 3
    /\ options.photonNoiseIso < 0
    /\ ValuesOf("EFFORT") = {9}
    /\ ValuesOf("DECODING_SPEED") = {4}
    /\ OptionCalls("EPF") = {}
    /\ OptionCalls("PHOTON_NOISE") = {}

----------------------------------------------------------------------------
(* The colorSpace label, checked under SpecDec *)

\* decodeHighBitDepth or decodeLinearFloat returned its result object
LabelledResult ==
    /\ dfunc \in {"decodeHighBitDepth", "decodeLinearFloat"}
    /\ dresult.kind = "object"

====
